---- MODULE Spec2Model ----
(***************************************************************************)
(* Verification model of the swarm visualisation dashboard:                *)
(*   - closestPointsBetweenSegments   (DroneVisualization3D.tsx)           *)
(*   - matchesFilters, interpolatedDrones, the timeline handlers and the   *)
(*     auto-play effect               (DroneSwarmDashboard.tsx)            *)
(*   - the 2D map projection          (DroneRangeMap2D.tsx)                *)
(*                                                                         *)
(* Numbers.  The program computes in IEEE doubles.  The model computes     *)
(* exactly: segment end points are integer vectors and every quotient is   *)
(* kept as a fraction <<numerator, denominator>>; times, speeds and drone  *)
(* fields are fixed-point integers counting units of 1/Den.                *)
(***************************************************************************)
EXTENDS Integers, Sequences, FiniteSets, TLC

VARIABLES
    p1, p2, q1, q2,     \* arguments of closestPointsBetweenSegments
    closest,            \* its return value, NoResult before the call
    dataset,            \* the base dataset: [timePoints, drones]
    filters,            \* useState filters (VisualizationFilters)
    timelineState,      \* useState timelineState: currentTime, isPlaying, playbackSpeed
    shown,              \* the value of the interpolatedDrones memo, NoResult before it is computed
    intervals,          \* number of live window.setInterval timers of the auto-play effect
    drone,              \* argument of matchesFilters
    matched,            \* its return value, NoResult before the call
    position,           \* a drone position handed to the 2D map
    boundingBox,        \* the boundingBox prop of the 2D map: << >> (undefined) or << box >>
    marker,             \* the projected marker, NoResult before it is computed
    customDrones,       \* useState customDrones: the custom drones the dashboard holds
    customTasks,        \* useState customTasks: the custom task tags the dashboard holds
    trajectoryPaths,    \* the value of the trajectoryPaths memo, NoResult before it is computed
    mounted,            \* TRUE until the dashboard is unmounted
    drones,             \* the drones prop of DroneStatistics and DroneVisualization3D
    coverage,           \* the value of the detectionCoverage memo, NoResult before it is computed
    vectorIntersections,\* the value of the vectorIntersections memo, NoResult before it is computed
    customFile,         \* the drones array of the custom-entities file of the server
    calls               \* the handleAddDrone / handleDeleteDrone calls made, each with its progress

segVars == <<p1, p2, q1, q2, closest>>
dashVars == <<dataset, filters, timelineState, shown, intervals,
              customDrones, customTasks, trajectoryPaths, mounted>>
filterVars == <<drone, matched>>
projVars == <<position, boundingBox, marker>>
viewVars == <<drones, coverage, vectorIntersections>>
netVars == <<customFile, calls>>
vars == <<segVars, dashVars, filterVars, projVars, viewVars, netVars>>

NoResult == << >>      \* no call made yet; << r >> holds the return value r

(***************************************************************************)
(* Bounds of the segment end points: lattice points of a small box.        *)
(***************************************************************************)
MaxX == 2
MaxYZ == 1

Points == { <<x, y, z>> : x \in 0..MaxX, y \in 0..MaxYZ, z \in 0..MaxYZ }

Max2(x, y) == IF x >= y THEN x ELSE y
Min2(x, y) == IF x <= y THEN x ELSE y

(***************************************************************************)
(* THREE.Vector3 arithmetic on integer triples.                            *)
(***************************************************************************)
VSub(a, b) == << a[1] - b[1], a[2] - b[2], a[3] - b[3] >>
VAdd(a, b) == << a[1] + b[1], a[2] + b[2], a[3] + b[3] >>
VScale(a, k) == << a[1] * k, a[2] * k, a[3] * k >>
VDot(a, b) == a[1] * b[1] + a[2] * b[2] + a[3] * b[3]

(***************************************************************************)
(* EPS = 1e-6.  Every quantity compared with EPS is an integer here, so    *)
(* x <= EPS is x <= 0 and |x| < EPS is x = 0.                              *)
(***************************************************************************)
LeqEPS(x) == x <= 0
AbsLtEPS(x) == x = 0

(***************************************************************************)
(* closestPointsBetweenSegments, lines 76-161.  The numerators and         *)
(* denominators sN/sD, tN/tD are returned together with the parameters     *)
(* sc, tc (fractions), the two points (numerator vector over a             *)
(* denominator) and the squared distance (a fraction).                     *)
(***************************************************************************)
SegFirst(a, b, c, d, e) ==
    \* lines 93-127: <<sN, sD, tN, tD>> after the first if/else chain
    IF LeqEPS(a) THEN << 0, 1, e, c >>
    ELSE IF LeqEPS(c) THEN << -d, a, 0, 1 >>
    ELSE LET sN0 == b * e - c * d
             tN0 == a * e - b * d
         IN  IF sN0 < 0 THEN << 0, a, e, c >>
             ELSE IF sN0 > a THEN << a, a, e + b, c >>
             ELSE << sN0, a, tN0, c >>

SegSecond(f, a, b, d) ==
    \* lines 129-151: the clamp of tN and the recomputation of sN
    LET sN == f[1]
        sD == f[2]
        tN == f[3]
        tD == f[4]
    IN  IF tN < 0 THEN
            IF -d < 0 THEN << 0, sD, 0, tD >>
            ELSE IF -d > a THEN << sD, sD, 0, tD >>
            ELSE << -d, a, 0, tD >>
        ELSE IF tN > tD THEN
            IF -d + b < 0 THEN << 0, sD, tD, tD >>
            ELSE IF -d + b > a THEN << sD, sD, tD, tD >>
            ELSE << -d + b, a, tD, tD >>
        ELSE f

Param(n, dd) ==
    \* lines 153-154: Math.abs(n) < EPS ? 0 : n / dd
    IF AbsLtEPS(n) THEN << 0, 1 >> ELSE << n, dd >>

Dist2(pa, pb) ==
    \* distanceTo of two fraction points, squared: a fraction
    LET diff == VSub(VScale(pa.num, pb.den), VScale(pb.num, pa.den))
    IN  << VDot(diff, diff), (pa.den * pb.den) * (pa.den * pb.den) >>

closestPointsBetweenSegments(P1, P2, Q1, Q2) ==
    LET u == VSub(P2, P1)
        v == VSub(Q2, Q1)
        w == VSub(P1, Q1)
        a == VDot(u, u)
        b == VDot(u, v)
        c == VDot(v, v)
        d == VDot(u, w)
        e == VDot(v, w)
    IN  IF LeqEPS(a) /\ LeqEPS(c)
        THEN LET pointA == [num |-> P1, den |-> 1]
                 pointB == [num |-> Q1, den |-> 1]
             IN  [ sc |-> << 0, 1 >>, tc |-> << 0, 1 >>,
                   pointA |-> pointA, pointB |-> pointB,
                   distance2 |-> Dist2(pointA, pointB) ]
        ELSE LET g == SegSecond(SegFirst(a, b, c, d, e), a, b, d)
                 sc == Param(g[1], g[2])
                 tc == Param(g[3], g[4])
                 pointA == [num |-> VAdd(VScale(P1, sc[2]), VScale(u, sc[1])),
                            den |-> sc[2]]
                 pointB == [num |-> VAdd(VScale(Q1, tc[2]), VScale(v, tc[1])),
                            den |-> tc[2]]
             IN  [ sc |-> sc, tc |-> tc,
                   pointA |-> pointA, pointB |-> pointB,
                   distance2 |-> Dist2(pointA, pointB) ]

(***************************************************************************)
(* The dashboard.  Times, speeds and the numeric drone fields are          *)
(* fixed-point integers in units of 1/Den; time indices (timePoint) are    *)
(* plain integers.                                                         *)
(***************************************************************************)
HalfSteps == 2              \* playback resolution: sub-steps in half a time index
Den == 2 * HalfSteps
MaxTimePoints == 2          \* most time points of a dataset of the time sampler
MaxPlayPoints == 5          \* most time points of a dataset played back
CoordSteps == 3             \* map coordinates reach from -50 to 50 * (2 * CoordSteps - 1)

Fx(n) == n * Den            \* the whole number n as a fixed-point value

SetMax(S) == CHOOSE x \in S : \A y \in S : y <= x
Includes(arr, x) == \E i \in 1..Len(arr) : arr[i] = x      \* Array.prototype.includes

(***************************************************************************)
(* The datasets.  A dataset has N time points 0..N-1 and, for each of two  *)
(* agents and each time point, no sample or a sample of one of two kinds   *)
(* (the first two samples of drone-1 in excelDataset, rounded, with the    *)
(* second one's battery, range, signal and video changed so that every     *)
(* field differs).  (droneId, timePoint) is unique by construction, and    *)
(* the drones array is ordered by agent, then time, as in excelDataset.    *)
(***************************************************************************)
AgentIds == << "drone-1", "drone-2" >>
Kinds == {1, 2}

MkSample(id, tp, kind) ==
    IF kind = 1
    THEN [ droneId |-> id, timePoint |-> tp,
           swarmId |-> "none", taskId |-> "hovering", state |-> "hovering",
           position |-> [x |-> Fx(6), y |-> Fx(5), z |-> Fx(7)],
           velocity |-> [x |-> Fx(2), y |-> Fx(3), z |-> Fx(1)],
           orientation |-> [pitch |-> Fx(22), roll |-> Fx(2), yaw |-> Fx(48)],
           batteryPercentage |-> Fx(98), detectionRange |-> Fx(50),
           signalIntensity |-> Fx(5), videoFeedbackOn |-> TRUE ]
    ELSE [ droneId |-> id, timePoint |-> tp,
           swarmId |-> "alpha", taskId |-> "descending", state |-> "descending",
           position |-> [x |-> Fx(21), y |-> Fx(23), z |-> Fx(10)],
           velocity |-> [x |-> Fx(1), y |-> Fx(-2), z |-> Fx(0)],
           orientation |-> [pitch |-> Fx(18), roll |-> Fx(-1), yaw |-> Fx(52)],
           batteryPercentage |-> Fx(40), detectionRange |-> Fx(30),
           signalIntensity |-> Fx(3), videoFeedbackOn |-> FALSE ]

SlotKeys(N) == { <<a, tp>> : a \in 1..Len(AgentIds), tp \in 0..(N - 1) }
SlotSeq(N) == [ i \in 1..(Len(AgentIds) * N) |-> << ((i - 1) \div N) + 1, (i - 1) % N >> ]

MkDataset(N, slots) ==
    LET keys == SelectSeq(SlotSeq(N), LAMBDA k : slots[k] # 0)
    IN  [ timePoints |-> [ i \in 1..N |-> i - 1 ],
          drones |-> [ i \in 1..Len(keys) |->
                         MkSample(AgentIds[keys[i][1]], keys[i][2], slots[keys[i]]) ] ]

availableSwarms == << "none", "alpha" >>
availableTasks == << "hovering", "descending" >>
availableStates == << "hovering", "descending" >>

InitialFilters ==
    \* lines 110-120
    [ selectedSwarms |-> availableSwarms,
      selectedTasks |-> availableTasks,
      selectedStates |-> availableStates,
      batteryRange |-> << Fx(0), Fx(100) >>,
      showTrajectories |-> FALSE,
      showDetectionRanges |-> FALSE,
      showVelocityVectors |-> FALSE,
      showSignalIntensity |-> TRUE,
      showVideoFeedback |-> TRUE ]

\* filters reachable through the control panel and handleApplyFilterUpdates
FilterChoices ==
    { InitialFilters,
      [InitialFilters EXCEPT !.selectedStates = << "hovering" >>],
      [InitialFilters EXCEPT !.batteryRange = << Fx(50), Fx(100) >>],
      [InitialFilters EXCEPT !.selectedStates = << >>, !.selectedSwarms = << "alpha" >>] }

\* mutant: an empty selectedStates excludes every drone
matchesFiltersStrictStates(d, f) ==
    /\ Includes(f.selectedSwarms, d.swarmId)
    /\ Includes(f.selectedTasks, d.taskId)
    /\ Includes(f.selectedStates, d.state)
    /\ d.batteryPercentage >= f.batteryRange[1]
    /\ d.batteryPercentage <= f.batteryRange[2]

matchesFilters(d, f) ==
    \* lines 122-128
    /\ Includes(f.selectedSwarms, d.swarmId)
    /\ Includes(f.selectedTasks, d.taskId)
    /\ (Len(f.selectedStates) = 0 \/ Includes(f.selectedStates, d.state))
    /\ d.batteryPercentage >= f.batteryRange[1]
    /\ d.batteryPercentage <= f.batteryRange[2]

\* mutant: every sample up to the time point
getDronesAtTimeUpTo(source, timePoint) ==
    SelectSeq(source.drones, LAMBDA d : d.timePoint <= timePoint)

getDronesAtTime(source, timePoint) ==
    \* DroneRangeMap2D.tsx lines 663-665
    SelectSeq(source.drones, LAMBDA d : d.timePoint = timePoint)

\* mutant: the end points swapped
lerpFromEnd(from, to, alpha) ==
    to + ((from - to) * alpha) \div Den

lerp(from, to, alpha) ==
    \* line 200: from + (to - from) * alpha.  from and to are whole numbers, so
    \* the product is a multiple of Den and the division is exact.
    from + ((to - from) * alpha) \div Den

\* mutant: the lookup ignores the id
MapGetAny(entries, id) ==
    IF entries = << >> THEN << >> ELSE << entries[Len(entries)] >>

MapGet(entries, id) ==
    \* new Map(entries.map(d => [d.droneId, d])).get(id): the last entry of
    \* that id, << >> for undefined
    LET idx == { i \in 1..Len(entries) : entries[i].droneId = id }
    IN  IF idx = {} THEN << >> ELSE << entries[SetMax(idx)] >>

\* mutant: the end value is taken only after the middle of the interval
StepAfterHalf(from, to, alpha) ==
    IF 2 * alpha <= Den THEN from ELSE to

StepAtHalf(from, to, alpha) ==
    \* line 227: t < 0.5 ? drone.videoFeedbackOn : next.videoFeedbackOn
    IF 2 * alpha < Den THEN from ELSE to

Blend(d, next, t) ==
    \* lines 208-229
    [ d EXCEPT
        !.position = [ x |-> lerp(d.position.x, next.position.x, t),
                       y |-> lerp(d.position.y, next.position.y, t),
                       z |-> lerp(d.position.z, next.position.z, t) ],
        !.velocity = [ x |-> lerp(d.velocity.x, next.velocity.x, t),
                       y |-> lerp(d.velocity.y, next.velocity.y, t),
                       z |-> lerp(d.velocity.z, next.velocity.z, t) ],
        !.orientation = [ pitch |-> lerp(d.orientation.pitch, next.orientation.pitch, t),
                          roll |-> lerp(d.orientation.roll, next.orientation.roll, t),
                          yaw |-> lerp(d.orientation.yaw, next.orientation.yaw, t) ],
        !.batteryPercentage = lerp(d.batteryPercentage, next.batteryPercentage, t),
        !.detectionRange = lerp(d.detectionRange, next.detectionRange, t),
        !.signalIntensity = lerp(d.signalIntensity, next.signalIntensity, t),
        !.videoFeedbackOn = StepAtHalf(d.videoFeedbackOn, next.videoFeedbackOn, t) ]

\* mutant: no lower clamp
ClampTimeAbove(time, maxIndex) ==
    Min2(time, Fx(maxIndex))

ClampTime(time, maxIndex) ==
    \* Math.min(Math.max(time, 0), maxIndex), lines 186 and 313
    Min2(Max2(time, 0), Fx(maxIndex))

\* mutant: only the start samples are filtered before the interpolation
interpolatedDronesStartFiltered(ds, f, currentTime) ==
    IF Len(ds.timePoints) = 0 THEN << >>
    ELSE
        LET maxIndex == Max2(0, Len(ds.timePoints) - 1)
            clampedTime == ClampTime(currentTime, maxIndex)
            startIndex == clampedTime \div Den
            endIndex == Min2(startIndex + 1, maxIndex)
            t == clampedTime - Fx(startIndex)
            startDrones == SelectSeq(getDronesAtTime(ds, startIndex),
                                     LAMBDA d : matchesFilters(d, f))
            endDrones == getDronesAtTime(ds, endIndex)
        IN  IF t = 0 \/ endIndex = startIndex THEN startDrones
            ELSE [ i \in 1..Len(startDrones) |->
                     LET next == MapGet(endDrones, startDrones[i].droneId)
                     IN  IF next = << >> THEN startDrones[i]
                         ELSE Blend(startDrones[i], next[1], t) ]

interpolatedDrones(ds, f, currentTime) ==
    \* lines 180-231
    IF Len(ds.timePoints) = 0 THEN << >>
    ELSE
        LET maxIndex == Max2(0, Len(ds.timePoints) - 1)
            clampedTime == ClampTime(currentTime, maxIndex)
            startIndex == clampedTime \div Den            \* Math.floor
            endIndex == Min2(startIndex + 1, maxIndex)
            t == clampedTime - Fx(startIndex)
            startDrones == SelectSeq(getDronesAtTime(ds, startIndex),
                                     LAMBDA d : matchesFilters(d, f))
            endDrones == SelectSeq(getDronesAtTime(ds, endIndex),
                                   LAMBDA d : matchesFilters(d, f))
        IN  IF t = 0 \/ endIndex = startIndex THEN startDrones
            ELSE [ i \in 1..Len(startDrones) |->
                     LET next == MapGet(endDrones, startDrones[i].droneId)
                     IN  IF next = << >> THEN startDrones[i]
                         ELSE Blend(startDrones[i], next[1], t) ]

(***************************************************************************)
(* The 2D range map (DroneRangeMap2D.tsx).  Positions and boxes are        *)
(* integers; a normalised coordinate is a fraction <<n, d>>, d > 0.        *)
(***************************************************************************)
MAP_MIN == 0
MAP_MAX == 100
MAP_SIZE == MAP_MAX - MAP_MIN
EDGE_PADDING == (MAP_SIZE * 4) \div 100         \* MAP_SIZE * 0.04

normalizeToMap(coordinate, minValue, span) ==
    \* lines 210-214: ((coordinate - minValue) / span) * MAP_SIZE + MAP_MIN
    << (coordinate - minValue) * MAP_SIZE + MAP_MIN * span, span >>

\* mutant: clamped to the map, without the margin
clampToMap(value) ==
    IF value[1] < MAP_MIN * value[2] THEN << MAP_MIN, 1 >>
    ELSE IF value[1] > MAP_MAX * value[2] THEN << MAP_MAX, 1 >>
    ELSE value

clampWithMargin(value) ==
    \* lines 241-242 and 337-338: Math.min(Math.max(value, lo), hi)
    IF value[1] < (MAP_MIN + EDGE_PADDING) * value[2] THEN << MAP_MIN + EDGE_PADDING, 1 >>
    ELSE IF value[1] > (MAP_MAX - EDGE_PADDING) * value[2] THEN << MAP_MAX - EDGE_PADDING, 1 >>
    ELSE value

DefaultBounds ==
    \* lines 228-231 and 330-333
    [ min |-> [x |-> MAP_MIN, y |-> 0, z |-> MAP_MIN],
      max |-> [x |-> MAP_MAX, y |-> 0, z |-> MAP_MAX] ]

\* mutant: the extent of the box is used as it is
SpanOfExtent(minValue, maxValue) == maxValue - minValue

SpanOf(minValue, maxValue) ==
    \* lines 233-234 and 334-335: Math.max(max - min, 1)
    Max2(maxValue - minValue, 1)

ProjectMarker(pos, box) ==
    \* lines 228-248 (circles) and 330-344 (realtimeMarkers): the same code
    LET bounds3d == IF box = << >> THEN DefaultBounds ELSE box[1]
        spanX == SpanOf(bounds3d.min.x, bounds3d.max.x)
        spanZ == SpanOf(bounds3d.min.z, bounds3d.max.z)
        normalizedX == normalizeToMap(pos.x, bounds3d.min.x, spanX)
        normalizedZ == normalizeToMap(pos.z, bounds3d.min.z, spanZ)
    IN  [ x |-> clampWithMargin(normalizedX),
          y |-> clampWithMargin(<< MAP_MAX * normalizedZ[2] - normalizedZ[1], normalizedZ[2] >>) ]

(***************************************************************************)
(* DroneStatistics (DroneAssistantPanel.tsx, lines 578-675).  Positions    *)
(* and ranges are integers.  Math.PI is irrational: a multiple of it is    *)
(* kept as its rational coefficient, and a percentage is                   *)
(* whole + pi * piTimes with whole an integer and piTimes a fraction.      *)
(***************************************************************************)
MaxAgents == 3              \* most drones handed to a view

SetMin(S) == CHOOSE x \in S : \A y \in S : x <= y

PiTimesBelow(x, y) ==
    \* pi * x < y for integers 0 <= x < 33215, y: no fraction y / x with such a
    \* denominator lies between the convergents 103993/33102 and 355/113 of pi
    IF x = 0 THEN 0 < y ELSE 113 * y >= 355 * x

\* mutant: the percentage is not capped
MinWith100Uncapped(areaOverPi, boundingArea) ==
    [ whole |-> 0, piTimes |-> << 100 * areaOverPi, boundingArea >> ]

MinWith100(areaOverPi, boundingArea) ==
    \* line 658: Math.min(100, (totalCoverageArea / boundingArea) * 100)
    IF PiTimesBelow(areaOverPi, boundingArea)
    THEN [ whole |-> 0, piTimes |-> << 100 * areaOverPi, boundingArea >> ]
    ELSE [ whole |-> 100, piTimes |-> << 0, 1 >> ]

\* mutant: the range of the second drone of the pair is forgotten
RangesOverlapFirstOnly(a, b) ==
    LET dx == a.position.x - b.position.x
        dz == a.position.z - b.position.z
        reach == a.detectionRange
    IN  reach > 0 /\ dx * dx + dz * dz < reach * reach

\* mutant: tangent ranges count as overlapping
RangesOverlapOrTangent(a, b) ==
    LET dx == a.position.x - b.position.x
        dz == a.position.z - b.position.z
        reach == a.detectionRange + b.detectionRange
    IN  reach >= 0 /\ dx * dx + dz * dz <= reach * reach

RangesOverlap(a, b) ==
    \* lines 664-669: Math.sqrt(dx * dx + dz * dz) < range_i + range_j
    LET dx == a.position.x - b.position.x
        dz == a.position.z - b.position.z
        reach == a.detectionRange + b.detectionRange
    IN  reach > 0 /\ dx * dx + dz * dz < reach * reach

SumSquaredRanges(ds) ==
    \* lines 651: the running sum of Math.PI * r * r, without the factor pi
    LET sum[i \in 0..Len(ds)] ==
            IF i = 0 THEN 0 ELSE sum[i - 1] + ds[i].detectionRange * ds[i].detectionRange
    IN  sum[Len(ds)]

detectionCoverage(ds) ==
    \* lines 637-675
    LET totalDrones == Len(ds)
    IN  IF totalDrones = 0
        THEN [ coveragePercent |-> [whole |-> 0, piTimes |-> << 0, 1 >>],
               overlapPairs |-> 0, totalPairs |-> 0 ]
        ELSE
            LET minX == SetMin({ ds[i].position.x - ds[i].detectionRange : i \in 1..totalDrones })
                maxX == SetMax({ ds[i].position.x + ds[i].detectionRange : i \in 1..totalDrones })
                minZ == SetMin({ ds[i].position.z - ds[i].detectionRange : i \in 1..totalDrones })
                maxZ == SetMax({ ds[i].position.z + ds[i].detectionRange : i \in 1..totalDrones })
                boundingArea == Max2((maxX - minX) * (maxZ - minZ), 0)
                coveragePercent ==
                    IF boundingArea > 0 THEN MinWith100(SumSquaredRanges(ds), boundingArea)
                    ELSE [whole |-> 0, piTimes |-> << 0, 1 >>]
                overlapPairs ==
                    Cardinality({ pr \in (1..totalDrones) \X (1..totalDrones) :
                                    pr[1] < pr[2] /\ RangesOverlap(ds[pr[1]], ds[pr[2]]) })
                totalPairs == (totalDrones * (totalDrones - 1)) \div 2
            IN  [ coveragePercent |-> coveragePercent,
                  overlapPairs |-> overlapPairs, totalPairs |-> totalPairs ]

(***************************************************************************)
(* currentDrones and trajectoryPaths (DroneSwarmDashboard.tsx, lines       *)
(* 233-236 and 286-308) and getDroneTrajectory (mockData).                 *)
(***************************************************************************)
SortByTimePoint(arr) ==
    \* Array.prototype.sort((a, b) => a.timePoint - b.timePoint): stable
    LET Insert(s, d) ==
            LET k == Cardinality({ j \in 1..Len(s) : s[j].timePoint <= d.timePoint })
            IN  SubSeq(s, 1, k) \o << d >> \o SubSeq(s, k + 1, Len(s))
        sorted[i \in 0..Len(arr)] ==
            IF i = 0 THEN << >> ELSE Insert(sorted[i - 1], arr[i])
    IN  sorted[Len(arr)]

\* mutant: the samples are left in the order of the dataset
getDroneTrajectoryUnsorted(source, droneId) ==
    SelectSeq(source.drones, LAMBDA d : d.droneId = droneId)

getDroneTrajectory(source, droneId) ==
    \* DroneRangeMap2D.tsx lines 667-671
    SortByTimePoint(SelectSeq(source.drones, LAMBDA d : d.droneId = droneId))

currentDrones(interpolated, custom, f) ==
    \* lines 233-236
    interpolated \o SelectSeq(custom, LAMBDA d : matchesFilters(d, f))

UniqueIds(arr) ==
    \* line 291: Array.from(new Set(arr.map(d => d.droneId))): first occurrences, in order
    LET firsts == SelectSeq([ i \in 1..Len(arr) |-> i ],
                            LAMBDA i : \A j \in 1..(i - 1) : arr[j].droneId # arr[i].droneId)
    IN  [ i \in 1..Len(firsts) |-> arr[firsts[i]].droneId ]

trajectoryPathsOf(f, current, ds) ==
    \* lines 286-308
    IF ~f.showTrajectories THEN << >>
    ELSE
        LET uniqueIds == UniqueIds(current)
            History(droneId) == SelectSeq(getDroneTrajectory(ds, droneId),
                                          LAMBDA d : matchesFilters(d, f))
            drawn == SelectSeq(uniqueIds, LAMBDA droneId : Len(History(droneId)) > 1)
        IN  [ i \in 1..Len(drawn) |->
                LET history == History(drawn[i])
                IN  [ droneId |-> drawn[i],
                      swarmId |-> history[Len(history)].swarmId,
                      points |-> [ n \in 1..Len(history) |->
                                     << history[n].position.x, history[n].position.y,
                                        history[n].position.z >> ] ] ]

(***************************************************************************)
(* The custom drones: the client (lib/api/customEntities.ts and the        *)
(* handlers of DroneSwarmDashboard.tsx) and the custom-entities routes of  *)
(* the dev server (vite config, lines 216-310).  A call of a handler goes  *)
(* through the stages "sent" (request in flight), "read" (the server has   *)
(* read the file and awaits the write), "responded" (response in flight)   *)
(* and "done".  A drone id is compared as a string; where the code takes   *)
(* it apart (the URL of a delete) it is the sequence of its characters.    *)
(***************************************************************************)
MaxCalls == 2               \* most calls of handleAddDrone / handleDeleteDrone

Chars(id) ==
    \* the characters of the drone ids of the model
    CASE id = "drone-1" -> << "d", "r", "o", "n", "e", "-", "1" >>
      [] id = "a/b" -> << "a", "/", "b" >>
      [] id = ".." -> << ".", "." >>
      [] id = "drone-2" -> << "d", "r", "o", "n", "e", "-", "2" >>
      [] id = "a" -> << "a" >>
      [] id = "c" -> << "c" >>
      [] id = "a-b" -> << "a", "-", "b" >>
      [] id = "b-c" -> << "b", "-", "c" >>
      [] OTHER -> << >>

Unreserved == { "d", "r", "o", "n", "e", "-", "1", "2", "a", "b", "c", "." }

encodeURIComponent(str) ==
    \* customEntities.ts line 48: every character but A-Z a-z 0-9 - _ . ! ~ * ' ( ) is escaped
    LET Escape(c) == IF c \in Unreserved THEN << c >>
                     ELSE IF c = "/" THEN << "%", "2", "F" >>
                     ELSE << "%", "2", "5" >>
        enc[i \in 0..Len(str)] == IF i = 0 THEN << >> ELSE enc[i - 1] \o Escape(str[i])
    IN  enc[Len(str)]

decodeURIComponent(str) ==
    \* vite config line 274: << decoded >>, or << >> for a URIError
    LET dec[i \in 1..(Len(str) + 1)] ==
            IF i > Len(str) THEN << << >> >>
            ELSE IF str[i] # "%" THEN
                    IF dec[i + 1] = << >> THEN << >> ELSE << << str[i] >> \o dec[i + 1][1] >>
            ELSE IF i + 2 > Len(str) \/ dec[i + 3] = << >> THEN << >>
            ELSE IF SubSeq(str, i + 1, i + 2) = << "2", "F" >> THEN << << "/" >> \o dec[i + 3][1] >>
            ELSE IF SubSeq(str, i + 1, i + 2) = << "2", "5" >> THEN << << "%" >> \o dec[i + 3][1] >>
            ELSE << >>
    IN  dec[1]

DronesRoute == << "api", "custom-entities", "drones" >>
EntitiesRoute == << "api", "custom-entities" >>

Pathname(dir, segment) ==
    \* fetch and new URL(req.url, ...) (vite config line 221): a segment "." is
    \* dropped and a segment ".." also removes the directory before it; the
    \* path then ends with "/"
    IF segment = << ".", "." >> THEN [dir |-> SubSeq(dir, 1, Len(dir) - 1), rest |-> << >>]
    ELSE IF segment = << "." >> THEN [dir |-> dir, rest |-> << >>]
    ELSE [dir |-> dir, rest |-> segment]

upsertCustomDrone(d) ==
    \* customEntities.ts lines 23-30: the request
    [ method |-> "POST", path |-> [dir |-> DronesRoute, rest |-> << >>], body |-> << d >> ]

deleteCustomDrone(droneId) ==
    \* customEntities.ts lines 47-50: the request
    [ method |-> "DELETE",
      path |-> Pathname(DronesRoute, encodeURIComponent(Chars(droneId))),
      body |-> << >> ]

fetchCustomEntities ==
    \* customEntities.ts lines 18-19: the request
    [ method |-> "GET", path |-> [dir |-> EntitiesRoute, rest |-> << >>], body |-> << >> ]

NewCall(op, droneId, request) ==
    [ op |-> op, droneId |-> droneId, request |-> request, stage |-> "sent", target |-> << >>,
      snapshot |-> << >>, response |-> << >>, outcome |-> "pending" ]

Respond(call, status, json) ==
    \* res.statusCode and res.end; response.ok is a status from 200 to 299
    [ call EXCEPT !.stage = "responded",
                  !.response = << [ok |-> status \in 200..299, status |-> status, json |-> json] >> ]

\* mutant: the incoming drone is always pushed
UpsertAppend(file, incomingDrone) ==
    Append(file, incomingDrone)

UpsertInto(file, incomingDrone) ==
    \* vite config lines 259-265
    LET idx == { i \in 1..Len(file) : file[i].droneId = incomingDrone.droneId }
    IN  IF idx # {} THEN [file EXCEPT ![SetMin(idx)] = incomingDrone]
        ELSE Append(file, incomingDrone)

DeleteFrom(file, droneId) ==
    \* vite config line 276
    SelectSeq(file, LAMBDA d : Chars(d.droneId) # droneId)

Route(call, file) ==
    \* vite config lines 217-281 and 309, up to the await of the file read:
    \* the call after the step
    LET req == call.request
    IN  IF req.path = [dir |-> EntitiesRoute, rest |-> << >>] /\ req.method = "GET"
        THEN Respond(call, 200, << [drones |-> file] >>)
        ELSE IF req.path = [dir |-> DronesRoute, rest |-> << >>] /\ req.method = "POST"
        THEN IF req.body = << >> \/ req.body[1].droneId = ""
             THEN Respond(call, 400, << >>)
             ELSE [call EXCEPT !.stage = "read", !.snapshot = << file >>]
        ELSE IF req.path.dir = DronesRoute /\ req.path.rest # << >> /\ req.method = "DELETE"
        THEN IF decodeURIComponent(req.path.rest) = << >>
             THEN Respond(call, 500, << >>)
             ELSE [call EXCEPT !.stage = "read", !.snapshot = << file >>,
                               !.target = decodeURIComponent(req.path.rest)]
        ELSE call                                                           \* next()

Written(call) ==
    \* vite config lines 259-266 and 276-277: the drones written to the file
    IF call.request.method = "POST"
    THEN UpsertInto(call.snapshot[1], call.request.body[1])
    ELSE DeleteFrom(call.snapshot[1], call.target[1])

handleResponse(response) ==
    \* customEntities.ts lines 10-16: << value >>, or << >> when it throws
    \* (a response that is not OK, or a body that is not JSON)
    IF ~response.ok THEN << >> ELSE response.json

\* mutant: the error is reported and swallowed
CatchAndSwallow(call) ==
    [call EXCEPT !.stage = "done", !.outcome = "fulfilled",
                 !.target = << >>, !.snapshot = << >>, !.response = << >>]

CatchAndRethrow(call) ==
    \* lines 329-333 and 355-359: toast.error, then throw error
    [call EXCEPT !.stage = "done", !.outcome = "rejected",
                 !.target = << >>, !.snapshot = << >>, !.response = << >>]

(***************************************************************************)
(* The velocity vectors of the 3D view (DroneVisualization3D.tsx, lines    *)
(* 56-74 and 608-667).  Positions are integers and multiples of the        *)
(* threshold; a velocity component counts twelfths, so that a velocity of  *)
(* n/12 gives a vector of n * 300 / 12 = 25 n.  Strings that the code      *)
(* compares or joins are sequences of characters.                          *)
(***************************************************************************)
VELOCITY_LENGTH_SCALE == 300
VELOCITY_MAX_LENGTH == 2400
VECTOR_INTERSECTION_THRESHOLD == 25
VelocityDen == VELOCITY_LENGTH_SCALE \div VECTOR_INTERSECTION_THRESHOLD

Alphabet ==
    \* the characters of the ids, in the order of their UTF-16 code units
    << "%", "-", ".", "/", "1", "2", "a", "b", "c", "d", "e", "n", "o", "r" >>

CharCode(c) == CHOOSE i \in 1..Len(Alphabet) : Alphabet[i] = c

StrLess(s, t) ==
    \* the operator < of two strings
    \E k \in 1..(Len(t)) :
        /\ k - 1 <= Len(s)
        /\ SubSeq(s, 1, k - 1) = SubSeq(t, 1, k - 1)
        /\ k > Len(s) \/ CharCode(s[k]) < CharCode(t[k])

IntersectionKey(aId, bId) ==
    \* line 655
    IF StrLess(Chars(aId), Chars(bId))
    THEN Chars(aId) \o << "-" >> \o Chars(bId)
    ELSE Chars(bId) \o << "-" >> \o Chars(aId)

Triple(v) == << v.x, v.y, v.z >>

VectorEnd(d) ==
    \* computeVelocityAttributes (lines 56-74) and lines 620-621: << end >>, or
    \* << >> when the speed is below VELOCITY_MIN_SPEED.  The length is clamped
    \* to VELOCITY_MAX_LENGTH; the model normalises only velocities whose speed
    \* is a whole number of twelfths.
    LET v == Triple(d.velocity)
        speed2 == VDot(v, v)
    IN  IF speed2 = 0 THEN << >>
        ELSE IF speed2 * VELOCITY_LENGTH_SCALE * VELOCITY_LENGTH_SCALE
                  <= (VELOCITY_MAX_LENGTH * VelocityDen) * (VELOCITY_MAX_LENGTH * VelocityDen)
        THEN << VAdd(Triple(d.position), VScale(v, VELOCITY_LENGTH_SCALE \div VelocityDen)) >>
        ELSE LET speed == CHOOSE k \in 1..speed2 : k * k = speed2
                 w == VScale(v, VELOCITY_MAX_LENGTH)
             IN  << VAdd(Triple(d.position),
                         << w[1] \div speed, w[2] \div speed, w[3] \div speed >>) >>

velocityVectorsOf(showVelocityVectors, ds) ==
    \* lines 608-638
    IF ~showVelocityVectors THEN << >>
    ELSE LET moving == SelectSeq(ds, LAMBDA d : VectorEnd(d) # << >>)
         IN  [ i \in 1..Len(moving) |->
                 [ id |-> moving[i].droneId, start |-> Triple(moving[i].position),
                   end |-> VectorEnd(moving[i])[1] ] ]

InThresholds(p) ==
    \* a point in units of the threshold
    << p[1] \div VECTOR_INTERSECTION_THRESHOLD, p[2] \div VECTOR_INTERSECTION_THRESHOLD,
       p[3] \div VECTOR_INTERSECTION_THRESHOLD >>

ClosestOfVectors(a, b) ==
    \* line 651, in units of the threshold (distances scale with the end points)
    closestPointsBetweenSegments(InThresholds(a.start), InThresholds(a.end),
                                 InThresholds(b.start), InThresholds(b.end))

\* (pointA + pointB) * 0.5, in world units: a numerator vector over a denominator
Midpoint(r) ==
    \* line 654
    [ num |-> VScale(VAdd(VScale(r.pointA.num, r.pointB.den), VScale(r.pointB.num, r.pointA.den)),
                     VECTOR_INTERSECTION_THRESHOLD),
      den |-> 2 * r.pointA.den * r.pointB.den ]

WithinThreshold(distance2) ==
    \* line 653: distance <= VECTOR_INTERSECTION_THRESHOLD
    distance2[1] <= distance2[2]

PairSeq(n) ==
    \* the pairs (i, j), i < j, in the order of the two loops of lines 647-648
    SelectSeq([ k \in 1..(n * n) |-> << ((k - 1) \div n) + 1, ((k - 1) % n) + 1 >> ],
              LAMBDA pr : pr[1] < pr[2])

vectorIntersectionsOf(showVelocityVectors, vectors) ==
    \* lines 640-667
    IF ~showVelocityVectors THEN << >>
    ELSE LET near == SelectSeq(PairSeq(Len(vectors)),
                               LAMBDA pr : WithinThreshold(
                                   ClosestOfVectors(vectors[pr[1]], vectors[pr[2]]).distance2))
         IN  [ k \in 1..Len(near) |->
                 LET a == vectors[near[k][1]]
                     b == vectors[near[k][2]]
                 IN  [ id |-> IntersectionKey(a.id, b.id),
                       position |-> Midpoint(ClosestOfVectors(a, b)) ] ]

(***************************************************************************)
(* The filter-sync effect (DroneSwarmDashboard.tsx, lines 19-32, 88-99 and *)
(* 130-153) and the tag toggles of the control panel (control-panel.tsx,   *)
(* lines 71-96).                                                           *)
(***************************************************************************)
mergeUnique(base, additions) ==
    \* lines 19-29: the items of base, then of additions, each at its first place
    LET all == base \o additions
    IN  SelectSeq([ i \in 1..Len(all) |-> << i, all[i] >> ],
                  LAMBDA e : \A j \in 1..(e[1] - 1) : all[j] # e[2])

Firsts(entries) == [ i \in 1..Len(entries) |-> entries[i][2] ]

MergeUnique(base, additions) == Firsts(mergeUnique(base, additions))

arraysAreEqual(a, b) ==
    \* lines 31-32
    Len(a) = Len(b) /\ \A i \in 1..Len(a) : a[i] = b[i]

combinedSwarms(custom) ==
    \* lines 88-91
    MergeUnique(availableSwarms, [ i \in 1..Len(custom) |-> custom[i].swarmId ])

combinedTasks(tasks, custom) ==
    \* lines 92-95
    MergeUnique(MergeUnique(availableTasks, tasks), [ i \in 1..Len(custom) |-> custom[i].taskId ])

combinedStates(custom) ==
    \* lines 96-99
    MergeUnique(availableStates, [ i \in 1..Len(custom) |-> custom[i].state ])

FilterSync(prev, tasks, custom) ==
    \* lines 130-153: the updater handed to setFilters
    LET mergedSwarms == MergeUnique(prev.selectedSwarms, combinedSwarms(custom))
        mergedTasks == MergeUnique(prev.selectedTasks, combinedTasks(tasks, custom))
        mergedStates == IF Len(combinedStates(custom)) > 0
                        THEN MergeUnique(prev.selectedStates, combinedStates(custom))
                        ELSE prev.selectedStates
    IN  IF /\ arraysAreEqual(prev.selectedSwarms, mergedSwarms)
           /\ arraysAreEqual(prev.selectedTasks, mergedTasks)
           /\ arraysAreEqual(prev.selectedStates, mergedStates)
        THEN prev
        ELSE [ prev EXCEPT !.selectedSwarms = mergedSwarms,
                           !.selectedTasks = mergedTasks,
                           !.selectedStates = mergedStates ]

Toggled(selected, id) ==
    \* control-panel.tsx lines 85-87 and 92-94
    IF Includes(selected, id) THEN SelectSeq(selected, LAMBDA x : x # id)
    ELSE Append(selected, id)

ElemsOf(arr) == { arr[i] : i \in 1..Len(arr) }

(***************************************************************************)
(* The parts of the state a specification does not use stay at rest.       *)
(***************************************************************************)
SegIdle ==
    /\ p1 = << 0, 0, 0 >>
    /\ p2 = << 0, 0, 0 >>
    /\ q1 = << 0, 0, 0 >>
    /\ q2 = << 0, 0, 0 >>
    /\ closest = NoResult

FilterIdle ==
    /\ drone = MkSample("drone-1", 0, 1)
    /\ matched = NoResult

DashIdle ==
    /\ dataset = MkDataset(0, << >>)
    /\ filters = InitialFilters
    /\ timelineState = [currentTime |-> 0, isPlaying |-> FALSE, playbackSpeed |-> Fx(1)]
    /\ shown = NoResult
    /\ intervals = 0
    /\ customDrones = << >>
    /\ customTasks = << >>
    /\ trajectoryPaths = NoResult
    /\ mounted = TRUE

ProjIdle ==
    /\ position = [x |-> 0, y |-> 0, z |-> 0]
    /\ boundingBox = << >>
    /\ marker = NoResult

ViewIdle ==
    /\ drones = << >>
    /\ coverage = NoResult
    /\ vectorIntersections = NoResult

NetIdle ==
    /\ customFile = << >>
    /\ calls = << >>

(***************************************************************************)
(* Specification of the segment routine: the arguments are drawn from the  *)
(* lattice box and the routine is applied to them once.                    *)
(***************************************************************************)
SegInit ==
    /\ p1 \in Points
    /\ p2 \in Points
    /\ q1 \in Points
    /\ q2 \in Points
    /\ closest = NoResult
    /\ DashIdle
    /\ FilterIdle
    /\ ProjIdle
    /\ ViewIdle
    /\ NetIdle

SegCompute ==
    /\ closest = NoResult
    /\ closest' = << closestPointsBetweenSegments(p1, p2, q1, q2) >>
    /\ UNCHANGED <<p1, p2, q1, q2, dashVars, filterVars, projVars, viewVars, netVars>>

SegNext == SegCompute

SpecSeg == SegInit /\ [][SegNext]_vars

(***************************************************************************)
(* Specification of the time sampler: a dataset, a filter and a current    *)
(* time (in range or not) are drawn, and the interpolatedDrones memo is    *)
(* computed for them.                                                      *)
(***************************************************************************)
TimeInputs(N) == (0 - Den)..Fx(N)

InterpInit ==
    /\ \E N \in 0..MaxTimePoints :
         /\ \E slots \in [SlotKeys(N) -> {0} \cup Kinds] : dataset = MkDataset(N, slots)
         /\ \E time \in TimeInputs(N) :
              timelineState = [currentTime |-> time, isPlaying |-> FALSE,
                               playbackSpeed |-> Fx(1)]
    /\ filters \in FilterChoices
    /\ shown = NoResult
    /\ intervals = 0
    /\ customDrones = << >>
    /\ customTasks = << >>
    /\ trajectoryPaths = NoResult
    /\ mounted = TRUE
    /\ SegIdle
    /\ FilterIdle
    /\ ProjIdle
    /\ ViewIdle
    /\ NetIdle

Render ==
    /\ shown = NoResult
    /\ shown' = << interpolatedDrones(dataset, filters, timelineState.currentTime) >>
    /\ UNCHANGED <<dataset, filters, timelineState, intervals, customDrones, customTasks, trajectoryPaths, mounted,
                 segVars, filterVars, projVars, viewVars, netVars>>

InterpNext == Render

SpecInterp == InterpInit /\ [][InterpNext]_vars

(***************************************************************************)
(* Specification of the filter predicate: a drone and a filter are drawn   *)
(* and matchesFilters is applied to them.  The selections are the sub-     *)
(* lists of the available tags; the battery range has its ends on the      *)
(* slider (0..100) with low <= high.                                       *)
(***************************************************************************)
SubLists(arr) ==
    { << >>, << arr[1] >>, << arr[2] >>, arr }

BatteryLevels == { Fx(0), Fx(50), Fx(75), Fx(100) }
BatteryRanges == { << lo, hi >> : lo \in { Fx(0), Fx(50) }, hi \in { Fx(50), Fx(100) } }

FilterInit ==
    /\ \E sw \in { "none", "alpha" }, tk \in { "hovering", "descending" },
          st \in { "hovering", "descending" }, bat \in BatteryLevels :
         drone = [MkSample("drone-1", 0, 1) EXCEPT !.swarmId = sw, !.taskId = tk,
                                                    !.state = st, !.batteryPercentage = bat]
    /\ \E sws \in SubLists(availableSwarms), tks \in SubLists(availableTasks),
          sts \in SubLists(availableStates), rng \in BatteryRanges :
         filters = [InitialFilters EXCEPT !.selectedSwarms = sws, !.selectedTasks = tks,
                                          !.selectedStates = sts, !.batteryRange = rng]
    /\ matched = NoResult
    /\ dataset = MkDataset(0, << >>)
    /\ timelineState = [currentTime |-> 0, isPlaying |-> FALSE, playbackSpeed |-> Fx(1)]
    /\ shown = NoResult
    /\ intervals = 0
    /\ customDrones = << >>
    /\ customTasks = << >>
    /\ trajectoryPaths = NoResult
    /\ mounted = TRUE
    /\ SegIdle
    /\ ProjIdle
    /\ ViewIdle
    /\ NetIdle

Match ==
    /\ matched = NoResult
    /\ matched' = << matchesFilters(drone, filters) >>
    /\ UNCHANGED <<drone, dashVars, segVars, projVars, viewVars, netVars>>

FilterNext == Match

SpecFilter == FilterInit /\ [][FilterNext]_vars

(***************************************************************************)
(* Specification of the 2D projection: a position (inside the box or not)  *)
(* and a bounding box (possibly absent or of zero extent) are drawn and    *)
(* projected.                                                              *)
(***************************************************************************)
Coordinates == { 50 * k - 50 : k \in 0..(2 * CoordSteps) } \cup { 5 }
Heights == { 0, 30 }

Boxes ==
    { << >>,
      << [min |-> [x |-> 0, y |-> 0, z |-> 0], max |-> [x |-> 100, y |-> 50, z |-> 100]] >>,
      << [min |-> [x |-> 5, y |-> 5, z |-> 5], max |-> [x |-> 5, y |-> 5, z |-> 5]] >>,
      << [min |-> [x |-> 5, y |-> 0, z |-> 0], max |-> [x |-> 5, y |-> 50, z |-> 100]] >>,
      << [min |-> [x |-> -17, y |-> 5, z |-> 0], max |-> [x |-> 96, y |-> 96, z |-> 53]] >> }

ProjInit ==
    /\ position \in [x : Coordinates, y : Heights, z : Coordinates]
    /\ boundingBox \in Boxes
    /\ marker = NoResult
    /\ SegIdle
    /\ DashIdle
    /\ FilterIdle
    /\ ViewIdle
    /\ NetIdle

Project ==
    /\ marker = NoResult
    /\ marker' = << ProjectMarker(position, boundingBox) >>
    /\ UNCHANGED <<position, boundingBox, segVars, dashVars, filterVars, viewVars, netVars>>

ProjNext == Project

SpecProj == ProjInit /\ [][ProjNext]_vars

(***************************************************************************)
(* Specification of the statistics panel: a list of drones is drawn (on a  *)
(* 3-4-5 grid, with ranges that make pairs apart, tangent and overlapping) *)
(* and detectionCoverage is computed for it.                               *)
(***************************************************************************)
ViewDrone(id, x, y, z, vx, vy, vz, range) ==
    [ droneId |-> id, position |-> [x |-> x, y |-> y, z |-> z],
      velocity |-> [x |-> vx, y |-> vy, z |-> vz], detectionRange |-> range ]

GridDrones ==
    { ViewDrone("drone-1", x, 0, z, 0, 0, 0, r) : x \in {0, 3}, z \in {0, 4}, r \in {0, 2, 5} }

\* drones above a corner of the grid, farther in space than in the plane
ElevatedDrones == { ViewDrone("drone-1", 3, 9, 4, 0, 0, 0, r) : r \in {0, 2} }

\* two drones of range 50 at planar distance sqrt(58^2 + 70^2) = 90.9...
WideDrones ==
    { ViewDrone("drone-1", 0, 0, 0, 0, 0, 0, 50), ViewDrone("drone-1", 58, 9, 70, 0, 0, 0, 50) }

CoverageDrones == GridDrones \cup ElevatedDrones \cup WideDrones

ListsUpTo(S, n) == UNION { [1..k -> S] : k \in 0..n }

CoverageInit ==
    /\ drones \in ListsUpTo(CoverageDrones, MaxAgents)
    /\ coverage = NoResult
    /\ vectorIntersections = NoResult
    /\ SegIdle
    /\ DashIdle
    /\ FilterIdle
    /\ ProjIdle
    /\ NetIdle

Summarise ==
    /\ coverage = NoResult
    /\ coverage' = << detectionCoverage(drones) >>
    /\ UNCHANGED <<drones, vectorIntersections, segVars, dashVars, filterVars, projVars, netVars>>

CoverageNext == Summarise

SpecCoverage == CoverageInit /\ [][CoverageNext]_vars

(***************************************************************************)
(* Specification of the trajectories: a dataset (its samples in the order  *)
(* of excelDataset or reversed; the second agent never changes its tags),  *)
(* a filter, an integer current time and the custom drones are drawn, and  *)
(* the trajectoryPaths memo is computed.                                   *)
(***************************************************************************)
MaxTrajPoints == 3          \* most time points of a dataset whose trajectories are drawn

Reverse(arr) == [ i \in 1..Len(arr) |-> arr[Len(arr) + 1 - i] ]

TrajFilters ==
    { [InitialFilters EXCEPT !.showTrajectories = TRUE],
      [InitialFilters EXCEPT !.showTrajectories = TRUE, !.selectedStates = << "hovering" >>],
      InitialFilters }

TrajCustomDrones == { << >>, << MkSample("drone-2", 0, 1) >> }

TrajInit ==
    /\ \E N \in 1..MaxTrajPoints :
         /\ \E slots \in [SlotKeys(N) -> {0} \cup Kinds] :
              /\ \A tp \in 0..(N - 1) : slots[<< 2, tp >>] # 2
              /\ LET ds == MkDataset(N, slots)
                 IN  dataset \in { ds, [ds EXCEPT !.drones = Reverse(ds.drones)] }
         /\ \E k \in 0..(N - 1) :
              timelineState = [currentTime |-> Fx(k), isPlaying |-> FALSE,
                               playbackSpeed |-> Fx(1)]
    /\ filters \in TrajFilters
    /\ customDrones \in TrajCustomDrones
    /\ customTasks = << >>
    /\ shown = NoResult
    /\ trajectoryPaths = NoResult
    /\ intervals = 0
    /\ mounted = TRUE
    /\ SegIdle
    /\ FilterIdle
    /\ ProjIdle
    /\ ViewIdle
    /\ NetIdle

RenderTrajectories ==
    /\ trajectoryPaths = NoResult
    /\ shown' = << interpolatedDrones(dataset, filters, timelineState.currentTime) >>
    /\ trajectoryPaths' =
         << trajectoryPathsOf(filters, currentDrones(shown'[1], customDrones, filters), dataset) >>
    /\ UNCHANGED <<dataset, filters, timelineState, intervals, customDrones, customTasks, mounted,
                   segVars, filterVars, projVars, viewVars, netVars>>

TrajNext == RenderTrajectories

SpecTraj == TrajInit /\ [][TrajNext]_vars

(***************************************************************************)
(* Specification of the custom drones: the dashboard is mounted over a     *)
(* custom-entities file left by an earlier session and fetches it; the     *)
(* handlers are called, the server serves the requests (several may be in  *)
(* flight), and a request or a response may fail.                          *)
(***************************************************************************)
InitialFiles ==
    { << MkSample("a/b", 0, 1) >>,
      << MkSample("drone-1", 0, 1), MkSample("..", 0, 1) >> }

\* a drone with the id of a base drone (new, or an update of the stored one), and one with no id
AddInputs == { MkSample("drone-1", 0, 2), MkSample("", 0, 1) }

DeleteInputs == { "a/b", ".." }

CustomInit ==
    /\ customFile \in InitialFiles
    /\ calls = << NewCall("fetch", "", fetchCustomEntities) >>      \* lines 67-86
    /\ customDrones = << >>
    /\ customTasks = << >>
    /\ dataset = MkDataset(1, [k \in SlotKeys(1) |-> 1])
    /\ filters = InitialFilters
    /\ timelineState = [currentTime |-> 0, isPlaying |-> FALSE, playbackSpeed |-> Fx(1)]
    /\ shown = NoResult
    /\ trajectoryPaths = NoResult
    /\ intervals = 0
    /\ mounted = TRUE
    /\ SegIdle
    /\ FilterIdle
    /\ ProjIdle
    /\ ViewIdle

CustomFrame ==
    UNCHANGED <<dataset, filters, timelineState, shown, intervals, customTasks, trajectoryPaths,
                mounted, segVars, filterVars, projVars, viewVars>>

handleAddDrone(d) ==
    \* lines 325-327, up to the await
    /\ Len(calls) <= MaxCalls
    /\ calls' = Append(calls, NewCall("upsert", d.droneId, upsertCustomDrone(d)))
    /\ UNCHANGED <<customDrones, customFile>>
    /\ CustomFrame

handleDeleteDrone(droneId) ==
    \* lines 351-353, up to the await
    /\ Len(calls) <= MaxCalls
    /\ calls' = Append(calls, NewCall("delete", droneId, deleteCustomDrone(droneId)))
    /\ UNCHANGED <<customDrones, customFile>>
    /\ CustomFrame

ServerRoute(i) ==
    \* vite config lines 216-281: the request is routed; a route that is found
    \* answers at once or reads the file; next() leaves the answer to the rest
    \* of the server, which no route of this repository gives (no JSON body)
    /\ calls[i].stage = "sent"
    /\ LET routed == Route(calls[i], customFile)
       IN  IF routed # calls[i] THEN calls' = [calls EXCEPT ![i] = routed]
           ELSE \E status \in { 200, 404 } :
                    calls' = [calls EXCEPT ![i] = Respond(calls[i], status, << >>)]
    /\ UNCHANGED <<customDrones, customFile>>
    /\ CustomFrame

ServerWrite(i) ==
    \* vite config lines 266-269 and 277-280: the file is written and sent back
    /\ calls[i].stage = "read"
    /\ customFile' = Written(calls[i])
    /\ calls' = [calls EXCEPT ![i] = Respond(calls[i], 200, << [drones |-> Written(calls[i])] >>)]
    /\ UNCHANGED customDrones
    /\ CustomFrame

ServerError(i) ==
    \* vite config lines 302-307: a file operation throws, the answer is 500
    /\ calls[i].stage \in { "sent", "read" }
    /\ calls' = [calls EXCEPT ![i] = Respond(calls[i], 500, << >>)]
    /\ UNCHANGED <<customDrones, customFile>>
    /\ CustomFrame

Settle(call, value) ==
    \* the handler after its await: lines 328, 354 and 70-81.  value is
    \* << payload >>, or << >> when the awaited promise is rejected.  What the
    \* server kept of the call is dropped with it.
    IF value # << >>
    THEN [call EXCEPT !.stage = "done", !.outcome = "fulfilled",
                      !.target = << >>, !.snapshot = << >>, !.response = << >>]
    ELSE IF call.op = "fetch"
    THEN [call EXCEPT !.stage = "done", !.outcome = "reported",
                      !.target = << >>, !.snapshot = << >>, !.response = << >>]
    ELSE CatchAndRethrow(call)

Resume(i) ==
    \* the response arrives: handleResponse, then the rest of the handler
    /\ calls[i].stage = "responded"
    /\ LET value == handleResponse(calls[i].response[1])
       IN  /\ calls' = [calls EXCEPT ![i] = Settle(calls[i], value)]
           /\ customDrones' = IF value # << >> THEN value[1].drones ELSE customDrones
    /\ UNCHANGED customFile
    /\ CustomFrame

FetchRejected(i) ==
    \* the request does not reach the server or its response is lost: fetch rejects
    /\ calls[i].stage \in { "sent", "responded" }
    /\ calls' = [calls EXCEPT ![i] = Settle(calls[i], << >>)]
    /\ UNCHANGED <<customDrones, customFile>>
    /\ CustomFrame

AddDrone == \E d \in AddInputs : handleAddDrone(d)
DeleteDrone == \E droneId \in DeleteInputs : handleDeleteDrone(droneId)
Serve == \E i \in 1..Len(calls) : ServerRoute(i)
Write == \E i \in 1..Len(calls) : ServerWrite(i)
Fail == \E i \in 1..Len(calls) : ServerError(i)
Arrive == \E i \in 1..Len(calls) : Resume(i)
Reject == \E i \in 1..Len(calls) : FetchRejected(i)

CustomNext ==
    \/ AddDrone
    \/ DeleteDrone
    \/ Serve
    \/ Write
    \/ Fail
    \/ Arrive
    \/ Reject

SpecCustom == CustomInit /\ [][CustomNext]_vars

(***************************************************************************)
(* Specification of the velocity vectors: the drones handed to the 3D view *)
(* are drawn (currentDrones: base drones followed by custom drones, whose  *)
(* ids are free text and may repeat a base id), at heights one threshold   *)
(* apart, at rest or moving, and the vectorIntersections memo is computed. *)
(***************************************************************************)
MaxVectors == 4             \* most drones handed to the 3D view

VecIdRows ==
    { << "drone-1", "drone-2", "drone-1", "drone-2" >>,
      << "a", "b-c", "a-b", "c" >> }

VecHeights == { 0, VECTOR_INTERSECTION_THRESHOLD, 2 * VECTOR_INTERSECTION_THRESHOLD }
VecVelocities == { << 0, 0, 0 >>, << 1, 0, 0 >>, << 0, 1, 0 >> }

VecInit ==
    /\ \E row \in VecIdRows, n \in 0..MaxVectors :
         \E ys \in [1..n -> VecHeights], vs \in [1..n -> VecVelocities] :
            drones = [ i \in 1..n |->
                         ViewDrone(row[((i - 1) % Len(row)) + 1], 0, ys[i], 0,
                                   vs[i][1], vs[i][2], vs[i][3], 0) ]
    /\ filters \in { InitialFilters, [InitialFilters EXCEPT !.showVelocityVectors = TRUE] }
    /\ coverage = NoResult
    /\ vectorIntersections = NoResult
    /\ dataset = MkDataset(0, << >>)
    /\ timelineState = [currentTime |-> 0, isPlaying |-> FALSE, playbackSpeed |-> Fx(1)]
    /\ shown = NoResult
    /\ intervals = 0
    /\ customDrones = << >>
    /\ customTasks = << >>
    /\ trajectoryPaths = NoResult
    /\ mounted = TRUE
    /\ SegIdle
    /\ FilterIdle
    /\ ProjIdle
    /\ NetIdle

RenderVectors ==
    /\ vectorIntersections = NoResult
    /\ vectorIntersections' =
         << vectorIntersectionsOf(filters.showVelocityVectors,
                                  velocityVectorsOf(filters.showVelocityVectors, drones)) >>
    /\ UNCHANGED <<drones, coverage, segVars, dashVars, filterVars, projVars, netVars>>

VecNext == RenderVectors

SpecVec == VecInit /\ [][VecNext]_vars

(***************************************************************************)
(* Specification of the filter sync: the operator toggles swarm and task   *)
(* tags and applies filter updates, custom drones and custom tasks arrive  *)
(* from the server, and the filter-sync effect runs with every change of   *)
(* customDrones or customTasks (the combined lists are new arrays then).   *)
(***************************************************************************)
CustomTagDrone == [ MkSample("drone-3", 0, 1) EXCEPT !.swarmId = "beta" ]

\* the lists of custom drones a response of the server may hold
SyncDroneLists ==
    { << >>, << MkSample("drone-3", 0, 1) >>, << CustomTagDrone >>,
      << CustomTagDrone, MkSample("drone-4", 0, 2) >> }

SyncTaskLists == { << >>, << "patrol" >> }

SyncUpdates ==
    { [ selectedStates |-> << "hovering" >> ], [ selectedStates |-> << >> ],
      [ batteryRange |-> << Fx(50), Fx(100) >>, showTrajectories |-> TRUE ] }

SyncInit ==
    /\ dataset = MkDataset(0, << >>)
    /\ filters = InitialFilters
    /\ timelineState = [currentTime |-> 0, isPlaying |-> FALSE, playbackSpeed |-> Fx(1)]
    /\ shown = NoResult
    /\ intervals = 0
    /\ customDrones = << >>
    /\ customTasks = << >>
    /\ trajectoryPaths = NoResult
    /\ mounted = TRUE
    /\ SegIdle
    /\ FilterIdle
    /\ ProjIdle
    /\ ViewIdle
    /\ NetIdle

SyncFrame ==
    UNCHANGED <<dataset, timelineState, shown, intervals, trajectoryPaths, mounted,
                segVars, filterVars, projVars, viewVars, netVars>>

toggleSwarm(swarmId) ==
    \* control-panel.tsx lines 84-89, onFiltersChange = setFilters
    /\ filters' = [filters EXCEPT !.selectedSwarms = Toggled(filters.selectedSwarms, swarmId)]
    /\ UNCHANGED <<customDrones, customTasks>>
    /\ SyncFrame

toggleTask(taskId) ==
    \* control-panel.tsx lines 91-96
    /\ filters' = [filters EXCEPT !.selectedTasks = Toggled(filters.selectedTasks, taskId)]
    /\ UNCHANGED <<customDrones, customTasks>>
    /\ SyncFrame

handleApplyFilterUpdates(updates) ==
    \* lines 347-349: { ...prev, ...updates }
    /\ filters' = [ k \in DOMAIN filters |->
                      IF k \in DOMAIN updates THEN updates[k] ELSE filters[k] ]
    /\ UNCHANGED <<customDrones, customTasks>>
    /\ SyncFrame

setCustomDrones(updatedDrones) ==
    \* lines 74, 328 and 354, with the effect of lines 130-153 that follows
    /\ customDrones' = updatedDrones
    /\ filters' = FilterSync(filters, customTasks, updatedDrones)
    /\ UNCHANGED customTasks
    /\ SyncFrame

setCustomTasks(updatedTasks) ==
    \* lines 75 and 339, with the effect of lines 130-153 that follows
    /\ customTasks' = updatedTasks
    /\ filters' = FilterSync(filters, updatedTasks, customDrones)
    /\ UNCHANGED customDrones
    /\ SyncFrame

ToggleSwarm == \E id \in ElemsOf(combinedSwarms(customDrones)) : toggleSwarm(id)
ToggleTask == \E id \in ElemsOf(combinedTasks(customTasks, customDrones)) : toggleTask(id)
ApplyUpdates == \E updates \in SyncUpdates : handleApplyFilterUpdates(updates)
DronesArrive == \E updatedDrones \in SyncDroneLists : setCustomDrones(updatedDrones)
TasksArrive == \E updatedTasks \in SyncTaskLists : setCustomTasks(updatedTasks)

SyncNext ==
    \/ ToggleSwarm
    \/ ToggleTask
    \/ ApplyUpdates
    \/ DronesArrive
    \/ TasksArrive

SpecSync == SyncInit /\ [][SyncNext]_vars

(***************************************************************************)
(* Specification of the displayed set: a dataset, a time, a filter and the *)
(* custom drones are drawn, and the currentDrones memo (the drones prop of *)
(* the views) is computed.  The battery ranges cut between, on and around  *)
(* the batteries 98 and 40 of the two kinds of sample.                     *)
(***************************************************************************)
ShowFilters ==
    { InitialFilters,
      [InitialFilters EXCEPT !.batteryRange = << Fx(75), Fx(100) >>],
      [InitialFilters EXCEPT !.batteryRange = << Fx(40), Fx(98) >>],
      [InitialFilters EXCEPT !.batteryRange = << Fx(0), Fx(50) >>, !.selectedStates = << >>],
      [InitialFilters EXCEPT !.selectedSwarms = << "alpha" >>] }

ShowCustomDrones ==
    { << >>, << MkSample("drone-3", 0, 1), MkSample("drone-4", 0, 2) >> }

ShowInit ==
    /\ \E N \in 0..MaxTimePoints :
         /\ \E slots \in [SlotKeys(N) -> {0} \cup Kinds] : dataset = MkDataset(N, slots)
         /\ \E time \in TimeInputs(N) :
              timelineState = [currentTime |-> time, isPlaying |-> FALSE,
                               playbackSpeed |-> Fx(1)]
    /\ filters \in ShowFilters
    /\ customDrones \in ShowCustomDrones
    /\ customTasks = << >>
    /\ shown = NoResult
    /\ drones = NoResult
    /\ coverage = NoResult
    /\ vectorIntersections = NoResult
    /\ intervals = 0
    /\ trajectoryPaths = NoResult
    /\ mounted = TRUE
    /\ SegIdle
    /\ FilterIdle
    /\ ProjIdle
    /\ NetIdle

RenderDrones ==
    \* lines 180-236: the two memos of one render
    /\ shown = NoResult
    /\ shown' = << interpolatedDrones(dataset, filters, timelineState.currentTime) >>
    /\ drones' = currentDrones(shown'[1], customDrones, filters)
    /\ UNCHANGED <<dataset, filters, timelineState, intervals, customDrones, customTasks,
                   trajectoryPaths, mounted, coverage, vectorIntersections,
                   segVars, filterVars, projVars, netVars>>

ShowNext == RenderDrones

SpecShow == ShowInit /\ [][ShowNext]_vars

(***************************************************************************)
(* Specification of two requests in the middleware at once: two mutating   *)
(* requests on different drone ids have reached the dev server, and each   *)
(* handler runs up to its await of readCustomData and then from there to   *)
(* its response (the middleware is an async function: another request is   *)
(* handled while one awaits the file).                                     *)
(***************************************************************************)
RaceFiles == { << >>, << MkSample("a/b", 0, 1) >> }

RaceCalls ==
    { NewCall("upsert", "drone-1", upsertCustomDrone(MkSample("drone-1", 0, 1))),
      NewCall("upsert", "drone-2", upsertCustomDrone(MkSample("drone-2", 0, 2))),
      NewCall("upsert", "a/b", upsertCustomDrone(MkSample("a/b", 0, 2))),
      NewCall("delete", "a/b", deleteCustomDrone("a/b")) }

RaceInit ==
    /\ customFile \in RaceFiles
    /\ \E first \in RaceCalls, second \in RaceCalls :
         /\ first.droneId # second.droneId
         /\ calls = << first, second >>
    /\ SegIdle
    /\ DashIdle
    /\ FilterIdle
    /\ ProjIdle
    /\ ViewIdle

RaceNext ==
    \/ Serve
    \/ Write

SpecRace == RaceInit /\ [][RaceNext]_vars

(***************************************************************************)
(* Specification of the store: starting from an empty file, upsert and     *)
(* delete requests are handled one after the other, each handler from its  *)
(* routing to its response before the next request is received.  calls     *)
(* holds the request handled last, with its response.                      *)
(***************************************************************************)
StoreIds == { "drone-1", "drone-2", "a/b" }

StoreRequests ==
    { NewCall("upsert", id, upsertCustomDrone(MkSample(id, 0, kind))) :
        id \in StoreIds \cup { "" }, kind \in Kinds }
      \cup { NewCall("upsert", "", [upsertCustomDrone(MkSample("", 0, 1)) EXCEPT !.body = << >>]) }
      \cup { NewCall("delete", id, deleteCustomDrone(id)) : id \in StoreIds }

StoreInit ==
    /\ customFile = << >>
    /\ calls = << >>
    /\ SegIdle
    /\ DashIdle
    /\ FilterIdle
    /\ ProjIdle
    /\ ViewIdle

HandleRequest(call) ==
    \* vite config lines 216-310 for one request, without interleaving
    /\ LET routed == Route(call, customFile)
       IN  IF routed.stage = "read"
           THEN /\ customFile' = Written(routed)
                /\ calls' = << Respond(routed, 200, << [drones |-> Written(routed)] >>) >>
           ELSE IF routed.stage = "responded"
           THEN /\ customFile' = customFile
                /\ calls' = << routed >>
           ELSE /\ customFile' = customFile
                /\ \E status \in { 200, 404 } : calls' = << Respond(call, status, << >>) >>
    /\ UNCHANGED <<segVars, dashVars, filterVars, projVars, viewVars>>

Handle == \E call \in StoreRequests : HandleRequest(call)

StoreNext == Handle

SpecStore == StoreInit /\ [][StoreNext]_vars

(***************************************************************************)
(* Specification of playback (the default one): the timeline handlers and  *)
(* the tick of the auto-play interval, over a dataset of N time points.    *)
(* The auto-play effect (lines 156-177) runs with the handler that changed *)
(* one of its dependencies: it clears the interval of the previous render  *)
(* and, when isPlaying, sets a new one (React runs the effects of an        *)
(* update that a click or a key caused before it handles the next event    *)
(* or timer).                                                              *)
(***************************************************************************)
Speeds == { Fx(0), HalfSteps, Fx(1), Fx(2) }    \* speeds handed to handleSpeedChange: 0, 0.5, 1, 2

\* mutant: the effect returns no cleanup, so the interval of the previous render stays
AutoPlayEffectNoCleanup(prev, next, live) ==
    IF prev.isPlaying = next.isPlaying /\ prev.playbackSpeed = next.playbackSpeed
    THEN live
    ELSE live + (IF next.isPlaying THEN 1 ELSE 0)

AutoPlayEffect(prev, next, live) ==
    \* the cleanup of the previous effect, then the effect, when a dependency changed
    IF prev.isPlaying = next.isPlaying /\ prev.playbackSpeed = next.playbackSpeed
    THEN live
    ELSE (live - (IF prev.isPlaying THEN 1 ELSE 0)) + (IF next.isPlaying THEN 1 ELSE 0)

SetTimelineState(next) ==
    /\ timelineState' = next
    /\ intervals' = AutoPlayEffect(timelineState, next, intervals)
    /\ UNCHANGED <<dataset, filters, shown, customDrones, customTasks, trajectoryPaths, mounted,
                 segVars, filterVars, projVars, viewVars, netVars>>

PlayInit ==
    /\ \E N \in 0..MaxPlayPoints :
         dataset = MkDataset(N, [k \in SlotKeys(N) |-> 1])
    /\ filters = InitialFilters
    /\ timelineState = [currentTime |-> 0, isPlaying |-> FALSE, playbackSpeed |-> Fx(1)]
    /\ shown = NoResult
    /\ intervals = 0
    /\ customDrones = << >>
    /\ customTasks = << >>
    /\ trajectoryPaths = NoResult
    /\ mounted = TRUE
    /\ SegIdle
    /\ FilterIdle
    /\ ProjIdle
    /\ ViewIdle
    /\ NetIdle

\* mutant: wraps as soon as the last index is reached
TickWrapAtLast ==
    /\ intervals > 0
    /\ LET maxIndex == Max2(0, Len(dataset.timePoints) - 1)
           nextTime == timelineState.currentTime + timelineState.playbackSpeed
       IN  IF maxIndex = 0 THEN SetTimelineState(timelineState)
           ELSE IF nextTime >= Fx(maxIndex)
                THEN SetTimelineState([timelineState EXCEPT !.currentTime = 0])
                ELSE SetTimelineState([timelineState EXCEPT !.currentTime = nextTime])

\* mutant: playback stops at the last index in place of wrapping
TickStopAtLast ==
    /\ intervals > 0
    /\ LET maxIndex == Max2(0, Len(dataset.timePoints) - 1)
           nextTime == timelineState.currentTime + timelineState.playbackSpeed
       IN  IF maxIndex = 0 THEN SetTimelineState(timelineState)
           ELSE IF nextTime > Fx(maxIndex)
                THEN SetTimelineState([timelineState EXCEPT !.currentTime = Fx(maxIndex)])
                ELSE SetTimelineState([timelineState EXCEPT !.currentTime = nextTime])

\* mutant: wraps against the number of time points, not the last index
TickPastLast ==
    /\ intervals > 0
    /\ LET maxIndex == Max2(0, Len(dataset.timePoints) - 1)
           nextTime == timelineState.currentTime + timelineState.playbackSpeed
       IN  IF maxIndex = 0 THEN SetTimelineState(timelineState)
           ELSE IF nextTime > Fx(Len(dataset.timePoints))
                THEN SetTimelineState([timelineState EXCEPT !.currentTime = 0])
                ELSE SetTimelineState([timelineState EXCEPT !.currentTime = nextTime])

Tick ==
    \* lines 161-174: the interval callback
    /\ intervals > 0
    /\ LET maxIndex == Max2(0, Len(dataset.timePoints) - 1)
           nextTime == timelineState.currentTime + timelineState.playbackSpeed
       IN  IF maxIndex = 0 THEN SetTimelineState(timelineState)
           ELSE IF nextTime > Fx(maxIndex)
                THEN SetTimelineState([timelineState EXCEPT !.currentTime = 0])
                ELSE SetTimelineState([timelineState EXCEPT !.currentTime = nextTime])

handleTimeChange(time) ==
    \* lines 311-315
    /\ mounted
    /\ LET maxIndex == Max2(0, Len(dataset.timePoints) - 1)
           clamped == ClampTime(time, maxIndex)
       IN  SetTimelineState([timelineState EXCEPT !.currentTime = clamped])

handlePlayPause ==
    \* lines 317-319
    /\ mounted
    /\ SetTimelineState([timelineState EXCEPT !.isPlaying = ~timelineState.isPlaying])

\* mutant: a speed change restarts playback from the first index
handleSpeedChangeRestart(speed) ==
    /\ mounted
    /\ SetTimelineState([timelineState EXCEPT !.playbackSpeed = speed, !.currentTime = 0])

handleSpeedChange(speed) ==
    \* lines 321-323
    /\ mounted
    /\ SetTimelineState([timelineState EXCEPT !.playbackSpeed = speed])

Unmount ==
    \* line 176: the dashboard is torn down; the cleanup of the last effect
    \* clears its interval, and the handlers are gone with the timeline
    /\ mounted
    /\ mounted' = FALSE
    /\ intervals' = intervals - (IF timelineState.isPlaying THEN 1 ELSE 0)
    /\ UNCHANGED <<dataset, filters, timelineState, shown, customDrones, customTasks, trajectoryPaths,
                   segVars, filterVars, projVars, viewVars, netVars>>

Scrub == \E time \in TimeInputs(Len(dataset.timePoints)) : handleTimeChange(time)
ChangeSpeed == \E speed \in Speeds : handleSpeedChange(speed)

Next ==
    \/ Tick
    \/ Scrub
    \/ handlePlayPause
    \/ ChangeSpeed
    \/ Unmount

Spec == PlayInit /\ [][Next]_vars

\* Playback with its timer: window.setInterval (line 161) calls the callback
\* every 120 ms for as long as the interval is not cleared, so a tick that
\* stays possible is taken.
SpecLoop == PlayInit /\ [][Next]_vars /\ WF_vars(Tick)

(***************************************************************************)
(* Fractions <<n, d>> with d > 0.                                          *)
(***************************************************************************)
FracLeq(x, y) == x[1] * y[2] <= y[1] * x[2]
FracEq(x, y) == x[1] * y[2] = y[1] * x[2]
FracMin(x, y) == IF FracLeq(x, y) THEN x ELSE y

InUnit(x) == x[2] > 0 /\ 0 <= x[1] /\ x[1] <= x[2]

\* C1: the parameters sc and tc used to build pointA and pointB are both
\* within [0,1], so pointA lies on segment [p1,p2] and pointB on [q1,q2],
\* also when exactly one of the two segments is degenerate.
C1_PointsOnSegments ==
    closest # NoResult => InUnit(closest[1].sc) /\ InUnit(closest[1].tc)

(***************************************************************************)
(* Reference: the exact minimum of |w + s u - t v|^2 over the unit square. *)
(* The function is convex, so the minimum is at the interior stationary    *)
(* point when there is one inside the square, and on one of the four       *)
(* edges otherwise.                                                        *)
(***************************************************************************)
Clamp01(n, dd) ==
    \* the fraction n/dd (dd >= 0) clamped to [0,1]; 0 when dd = 0
    IF dd = 0 \/ n <= 0 THEN << 0, 1 >>
    ELSE IF n >= dd THEN << 1, 1 >>
    ELSE << n, dd >>

SqDistAt(P1, P2, Q1, Q2, s, t) ==
    Dist2([num |-> VAdd(VScale(P1, s[2]), VScale(VSub(P2, P1), s[1])), den |-> s[2]],
          [num |-> VAdd(VScale(Q1, t[2]), VScale(VSub(Q2, Q1), t[1])), den |-> t[2]])

RefMinDist2(P1, P2, Q1, Q2) ==
    LET u == VSub(P2, P1)
        v == VSub(Q2, Q1)
        w == VSub(P1, Q1)
        a == VDot(u, u)
        b == VDot(u, v)
        c == VDot(v, v)
        d == VDot(u, w)
        e == VDot(v, w)
        D == a * c - b * b
        s0 == SqDistAt(P1, P2, Q1, Q2, << 0, 1 >>, Clamp01(e, c))
        s1 == SqDistAt(P1, P2, Q1, Q2, << 1, 1 >>, Clamp01(e + b, c))
        t0 == SqDistAt(P1, P2, Q1, Q2, Clamp01(-d, a), << 0, 1 >>)
        t1 == SqDistAt(P1, P2, Q1, Q2, Clamp01(b - d, a), << 1, 1 >>)
        edges == FracMin(FracMin(s0, s1), FracMin(t0, t1))
        sI == b * e - c * d
        tI == a * e - b * d
    IN  IF D > 0 /\ 0 <= sI /\ sI <= D /\ 0 <= tI /\ tI <= D
        THEN FracMin(edges, SqDistAt(P1, P2, Q1, Q2, << sI, D >>, << tI, D >>))
        ELSE edges

\* C2: the returned distance equals the minimum distance between any point
\* of segment [p1,p2] and any point of segment [q1,q2].
C2_DistanceIsMinimum ==
    closest # NoResult =>
        FracEq(closest[1].distance2, RefMinDist2(p1, p2, q1, q2))

(***************************************************************************)
(* Time sampler claims (SpecInterp).                                       *)
(***************************************************************************)
Rendered == shown # NoResult
Result == shown[1]
NumTimePoints == Len(dataset.timePoints)
LastIndex == NumTimePoints - 1
Now == timelineState.currentTime

\* floor of the current time clamped to [0, LastIndex]
FloorIndex ==
    IF Now <= 0 THEN 0
    ELSE IF Now >= Fx(LastIndex) THEN LastIndex
    ELSE CHOOSE k \in 0..LastIndex : Fx(k) <= Now /\ Now < Fx(k + 1)

Frac == Now - Fx(FloorIndex)
Fractional == NumTimePoints > 0 /\ 0 < Now /\ Now < Fx(LastIndex) /\ Frac # 0

\* the samples of the dataset at time index k that pass the current filter
Passing(k) ==
    { d \in { dataset.drones[i] : i \in 1..Len(dataset.drones) } :
        /\ d.timePoint = k
        /\ d.swarmId \in { filters.selectedSwarms[i] : i \in 1..Len(filters.selectedSwarms) }
        /\ d.taskId \in { filters.selectedTasks[i] : i \in 1..Len(filters.selectedTasks) }
        /\ \/ filters.selectedStates = << >>
           \/ d.state \in { filters.selectedStates[i] : i \in 1..Len(filters.selectedStates) }
        /\ filters.batteryRange[1] <= d.batteryPercentage
        /\ d.batteryPercentage <= filters.batteryRange[2] }

ResultSet == { Result[i] : i \in 1..Len(Result) }
IdsOf(S) == { d.droneId : d \in S }

\* C3: at every integer time t in [0, maxIndex] the interpolated agent set is
\* exactly the samples whose timePoint is t (under the same filter), each once
\* and with no field altered.
C3_IntegerTimeExact ==
    (Rendered /\ NumTimePoints > 0 /\ \E k \in 0..LastIndex : Now = Fx(k)) =>
        /\ ResultSet = Passing(Now \div Den)
        /\ Len(Result) = Cardinality(Passing(Now \div Den))

C3_Witness ==
    /\ Rendered
    /\ Now = Fx(1)
    /\ LastIndex = 1
    /\ Len(Result) = 2
    /\ Len(dataset.drones) = 4

\* x is from + (to - from) * frac, with frac = Frac / Den
IsLerp(x, from, to) == Den * x = Den * from + (to - from) * Frac

SamplesAt(k) ==
    { d \in { dataset.drones[i] : i \in 1..Len(dataset.drones) } : d.timePoint = k }

\* C5: for any time t the agent ids of the interpolated result are the agent
\* ids of the (filtered) samples at the start index floor(clamp(t)), each once;
\* an agent with no sample at the end index is returned as its unchanged start
\* sample, and an agent that exists only at the end index is not introduced.
C5_StartAgentsOnly ==
    (Rendered /\ NumTimePoints > 0) =>
        /\ IdsOf(ResultSet) = IdsOf(Passing(FloorIndex))
        /\ Len(Result) = Cardinality(IdsOf(Passing(FloorIndex)))
        /\ \A s \in Passing(FloorIndex) :
             s.droneId \notin IdsOf(SamplesAt(FloorIndex + 1)) => s \in ResultSet
        /\ \A e \in SamplesAt(FloorIndex + 1) :
             e.droneId \notin IdsOf(Passing(FloorIndex)) => e.droneId \notin IdsOf(ResultSet)

\* a fractional time, one agent only at the start, the other only at the end
C5_Witness ==
    /\ Rendered
    /\ Fractional
    /\ \E s \in Passing(FloorIndex) :
         /\ s.droneId \notin IdsOf(SamplesAt(FloorIndex + 1))
         /\ s \in ResultSet
    /\ \E e \in Passing(FloorIndex + 1) : e.droneId \notin IdsOf(SamplesAt(FloorIndex))

\* C6: a time below 0 gives the result of time 0, a time above maxIndex gives
\* the result of maxIndex, and a dataset with no time indices gives the empty
\* set.
C6_OutOfRangeTime ==
    Rendered =>
        /\ NumTimePoints = 0 => Result = << >>
        /\ (NumTimePoints > 0 /\ Now < 0) =>
              /\ Result = interpolatedDrones(dataset, filters, 0)
              /\ ResultSet = Passing(0)
        /\ (NumTimePoints > 0 /\ Now > Fx(LastIndex)) =>
              /\ Result = interpolatedDrones(dataset, filters, Fx(LastIndex))
              /\ ResultSet = Passing(LastIndex)

C6_Witness ==
    /\ Rendered
    /\ Now < 0
    /\ LastIndex = 1
    /\ Len(Result) = 2
    /\ Passing(1) = {}

(***************************************************************************)
(* Filter claims (SpecFilter).                                             *)
(***************************************************************************)
Elems(arr) == { arr[i] : i \in 1..Len(arr) }

\* C7: matches(agent, spec) is true exactly when swarm is in selectedSwarms and
\* task in selectedTasks and (selectedStates is empty or state is in
\* selectedStates) and batteryRange[0] <= battery <= batteryRange[1]; an empty
\* selectedStates never excludes an agent, selectedStates = ['hovering']
\* excludes an agent in state 'descending', and an empty selectedSwarms or
\* selectedTasks excludes every agent.
C7_MatchesFilters ==
    matched # NoResult =>
        /\ matched[1] <=>
             /\ drone.swarmId \in Elems(filters.selectedSwarms)
             /\ drone.taskId \in Elems(filters.selectedTasks)
             /\ (Elems(filters.selectedStates) = {} \/ drone.state \in Elems(filters.selectedStates))
             /\ filters.batteryRange[1] <= drone.batteryPercentage
             /\ drone.batteryPercentage <= filters.batteryRange[2]
        /\ filters.selectedStates = << >> =>
             (matched[1] <=>
                matchesFilters(drone, [filters EXCEPT !.selectedStates = << drone.state >>]))
        /\ (filters.selectedStates = << "hovering" >> /\ drone.state = "descending")
             => ~matched[1]
        /\ (filters.selectedSwarms = << >> \/ filters.selectedTasks = << >>) => ~matched[1]

\* an empty state selection, a battery equal to the upper end of the range
C7_Witness ==
    /\ matched = << TRUE >>
    /\ filters.selectedStates = << >>
    /\ drone.state = "descending"
    /\ drone.batteryPercentage = filters.batteryRange[2]

(***************************************************************************)
(* Projection claims (SpecProj).                                           *)
(***************************************************************************)
Projected == marker # NoResult

FracWithin(v, lo, hi) == v[2] > 0 /\ lo * v[2] <= v[1] /\ v[1] <= hi * v[2]

\* the span and the normalised z of the current position, from the box in use
BoxInUse ==
    IF boundingBox = << >>
    THEN [min |-> [x |-> 0, y |-> 0, z |-> 0], max |-> [x |-> 100, y |-> 0, z |-> 100]]
    ELSE boundingBox[1]
SpanZ == IF BoxInUse.max.z - BoxInUse.min.z >= 1 THEN BoxInUse.max.z - BoxInUse.min.z ELSE 1
FlippedZ == << 100 * SpanZ - 100 * (position.z - BoxInUse.min.z), SpanZ >>     \* 100 - normalizedZ

\* C8: both coordinates of the 2D projection of any position, also one outside
\* the bounding box, are within [4, 96]; the output y is 100 - normalizedZ
\* (clamped) and does not depend on the world y component.
C8_ProjectionWithinMargin ==
    Projected =>
        /\ FracWithin(marker[1].x, 4, 96)
        /\ FracWithin(marker[1].y, 4, 96)
        /\ FracWithin(FlippedZ, 4, 96) => FracEq(marker[1].y, FlippedZ)
        /\ ~FracLeq(<< 4, 1 >>, FlippedZ) => FracEq(marker[1].y, << 4, 1 >>)
        /\ ~FracLeq(FlippedZ, << 96, 1 >>) => FracEq(marker[1].y, << 96, 1 >>)
        /\ \A h \in Heights :
             ProjectMarker([position EXCEPT !.y = h], boundingBox) = marker[1]

\* a position right of and below the box: x clamped to 96, y to 96
C8_Witness ==
    /\ Projected
    /\ boundingBox # << >>
    /\ position.x > boundingBox[1].max.x
    /\ position.z < boundingBox[1].min.z
    /\ position.y # 0
    /\ marker[1].x = << 96, 1 >>
    /\ marker[1].y = << 96, 1 >>

(***************************************************************************)
(* Playback claims (Spec).                                                 *)
(***************************************************************************)
IsPlayingChanged == timelineState'.isPlaying # timelineState.isPlaying
TimeChanged == timelineState'.currentTime # timelineState.currentTime

\* C9: playback has two states and starts Paused at currentTime 0; isPlaying
\* changes only through the play/pause toggle, which flips it; a tick, a scrub
\* and a playbackSpeed change never change isPlaying, and a playbackSpeed
\* change does not change currentTime.
C9_PlaybackTransitions ==
    /\ timelineState.isPlaying = FALSE
    /\ timelineState.currentTime = 0
    /\ [](timelineState.isPlaying \in BOOLEAN)
    /\ [][ /\ IsPlayingChanged => handlePlayPause
           /\ handlePlayPause => timelineState'.isPlaying = ~timelineState.isPlaying
           /\ Tick => ~IsPlayingChanged
           /\ Scrub => ~IsPlayingChanged
           /\ ChangeSpeed => (~IsPlayingChanged /\ ~TimeChanged) ]_vars

\* playing, past the first index, at a speed other than the initial one
C9_Witness ==
    /\ timelineState.isPlaying
    /\ timelineState.currentTime > 0
    /\ timelineState.playbackSpeed = Fx(2)
    /\ intervals = 1

\* C10: a tick while Playing computes nextTime = currentTime + playbackSpeed
\* with the speed in effect at the tick; the new currentTime is 0 when
\* nextTime > maxIndex and nextTime otherwise, so nextTime = maxIndex is
\* advanced to and not wrapped.
C10_TickAdvancesOrWraps ==
    [][ Tick =>
          LET nextTime == timelineState.currentTime + timelineState.playbackSpeed
          IN  /\ timelineState.isPlaying
              /\ timelineState'.currentTime =
                    IF nextTime > Fx(Len(dataset.timePoints) - 1) THEN 0 ELSE nextTime
              /\ timelineState'.playbackSpeed = timelineState.playbackSpeed ]_vars

\* playing at 2x and arrived exactly on the last index of an odd-length dataset
C10_Witness ==
    /\ timelineState.isPlaying
    /\ Len(dataset.timePoints) = 5
    /\ timelineState.currentTime = Fx(4)
    /\ timelineState.playbackSpeed = Fx(2)

(***************************************************************************)
(* Statistics claims (SpecCoverage).                                       *)
(***************************************************************************)
Summarised == coverage # NoResult
NumDrones == Len(drones)

\* the list drones reordered by the permutation f of its indices
Reordered(f) == [ i \in 1..NumDrones |-> drones[f[i]] ]

\* C11: for any agent list, overlapPairs is unchanged by any permutation of
\* the list and satisfies 0 <= overlapPairs <= totalPairs, where
\* totalPairs = n*(n-1)/2 for n agents.
C11_OverlapPairsSymmetric ==
    Summarised =>
        /\ \A f \in Permutations(1..NumDrones) :
             detectionCoverage(Reordered(f)).overlapPairs = coverage[1].overlapPairs
        /\ 0 <= coverage[1].overlapPairs
        /\ coverage[1].overlapPairs <= coverage[1].totalPairs
        /\ 2 * coverage[1].totalPairs = NumDrones * (NumDrones - 1)

\* three drones of different ranges: one pair overlapping, one tangent, one apart
C11_Witness ==
    /\ Summarised
    /\ NumDrones = 3
    /\ coverage[1].overlapPairs = 1
    /\ coverage[1].totalPairs = 3
    /\ drones[1].detectionRange = 5
    /\ drones[2].detectionRange = 0
    /\ drones[3].detectionRange = 2

\* the enclosing rectangle of the discs and the sum of the squared ranges
RectArea ==
    LET idx == 1..NumDrones
        width == SetMax({ drones[i].position.x + drones[i].detectionRange : i \in idx })
                   - SetMin({ drones[i].position.x - drones[i].detectionRange : i \in idx })
        depth == SetMax({ drones[i].position.z + drones[i].detectionRange : i \in idx })
                   - SetMin({ drones[i].position.z - drones[i].detectionRange : i \in idx })
    IN  width * depth
SquaredRanges ==
    LET sq[S \in SUBSET (1..NumDrones)] ==
            IF S = {} THEN 0
            ELSE LET i == CHOOSE j \in S : TRUE
                 IN  drones[i].detectionRange * drones[i].detectionRange + sq[S \ {i}]
    IN  sq[1..NumDrones]

\* the percentage p = whole + pi * n / d is within [0, 100]
PercentInRange(p) ==
    /\ p.piTimes[2] > 0
    /\ p.piTimes[1] >= 0
    /\ p.whole >= 0
    /\ \/ p.whole = 100 /\ p.piTimes[1] = 0
       \/ p.whole = 0 /\ PiTimesBelow(p.piTimes[1], 100 * p.piTimes[2])
IsPercent(p, n) == p.whole = n /\ p.piTimes[1] = 0

\* C12: coveragePercent is always within [0, 100]: it is 0 for an empty agent
\* list (together with overlapPairs = 0 and totalPairs = 0) and when the
\* enclosing rectangle has area 0, and it is capped at 100 when the summed
\* disc areas exceed the enclosing rectangle's area.
C12_CoveragePercentRange ==
    Summarised =>
        /\ PercentInRange(coverage[1].coveragePercent)
        /\ NumDrones = 0 =>
             /\ IsPercent(coverage[1].coveragePercent, 0)
             /\ coverage[1].overlapPairs = 0
             /\ coverage[1].totalPairs = 0
        /\ (NumDrones > 0 /\ RectArea = 0) => IsPercent(coverage[1].coveragePercent, 0)
        /\ (NumDrones > 0 /\ RectArea > 0 /\ ~PiTimesBelow(SquaredRanges, RectArea)) =>
             IsPercent(coverage[1].coveragePercent, 100)

\* two discs of radius 5 on the same spot: 50 pi over a rectangle of area 100
C12_Witness ==
    /\ Summarised
    /\ NumDrones = 2
    /\ drones[1] = drones[2]
    /\ drones[1].detectionRange = 5
    /\ IsPercent(coverage[1].coveragePercent, 100)

(***************************************************************************)
(* Trajectory claims (SpecTraj).                                           *)
(***************************************************************************)
PathsDrawn == trajectoryPaths # NoResult
Paths == trajectoryPaths[1]

\* the samples of agent id that pass the current filter
Remaining(id) ==
    { d \in { dataset.drones[i] : i \in 1..Len(dataset.drones) } :
        d.droneId = id /\ d \in Passing(d.timePoint) }

\* the n-th of the remaining samples of agent id in ascending time order
NthRemaining(id, n) ==
    CHOOSE d \in Remaining(id) :
        Cardinality({ e \in Remaining(id) : e.timePoint < d.timePoint }) = n - 1

PointOf(d) == << d.position.x, d.position.y, d.position.z >>

\* the agents shown at the current time: the base samples and the custom drones
DisplayedIds == IdsOf(ResultSet) \cup { customDrones[i].droneId : i \in 1..Len(customDrones) }

\* C13: the trajectory of an agent is its samples sorted ascending by
\* timeIndex and then filtered by matches, order preserved; an agent with at
\* most one remaining sample gets no path, and a path that is emitted for an
\* agent with k >= 2 remaining samples has exactly k points, in strictly
\* ascending time order (one path for every displayed agent when trajectories
\* are switched on).
C13_TrajectoryPath ==
    PathsDrawn =>
        /\ \A i \in 1..Len(Paths) :
             LET id == Paths[i].droneId
                 k == Cardinality(Remaining(id))
             IN  /\ k >= 2
                 /\ Len(Paths[i].points) = k
                 /\ \A n \in 1..k : Paths[i].points[n] = PointOf(NthRemaining(id, n))
                 /\ \A j \in 1..Len(Paths) : Paths[j].droneId = id => j = i
        /\ \A a \in 1..Len(AgentIds) :
             Cardinality(Remaining(AgentIds[a])) <= 1 =>
                 \A i \in 1..Len(Paths) : Paths[i].droneId # AgentIds[a]
        /\ \A a \in 1..Len(AgentIds) :
             ( /\ filters.showTrajectories
               /\ AgentIds[a] \in DisplayedIds
               /\ Cardinality(Remaining(AgentIds[a])) >= 2 ) =>
                 \E i \in 1..Len(Paths) : Paths[i].droneId = AgentIds[a]

\* the samples stored in descending time order; one agent has three samples of
\* which the filter leaves two (a path of two points), the other has one (no path)
C13_Witness ==
    /\ PathsDrawn
    /\ Len(dataset.drones) = 4
    /\ dataset.drones[2].droneId = "drone-1"
    /\ dataset.drones[2].timePoint > dataset.drones[3].timePoint
    /\ Len(filters.selectedStates) = 1
    /\ Cardinality(SamplesAt(0) \cup SamplesAt(1) \cup SamplesAt(2)) = 4
    /\ Cardinality(Remaining("drone-1")) = 2
    /\ Cardinality(Remaining("drone-2")) = 1
    /\ Len(Paths) = 1
    /\ Paths[1].droneId = "drone-1"
    /\ Paths[1].points = << << Fx(6), Fx(5), Fx(7) >>, << Fx(6), Fx(5), Fx(7) >> >>

(***************************************************************************)
(* Custom drone claims (SpecCustom).                                       *)
(***************************************************************************)
\* the step in which the server answers the delete request of call i
DeleteAnswered(i) ==
    /\ calls[i].op = "delete"
    /\ ServerRoute(i) \/ ServerWrite(i)
    /\ calls'[i].stage = "responded"

\* C14: deleting a custom drone by id removes exactly the custom drones whose
\* droneId equals the given id character for character; every other custom
\* drone stays, and no base-dataset sample (even one with the same id) is
\* removed or changed by any add, update or delete of custom drones.
C14_DeleteExactMatch ==
    [][ /\ \A i \in 1..Len(calls) :
             DeleteAnswered(i) =>
                 customFile' = SelectSeq(customFile, LAMBDA d : d.droneId # calls[i].droneId)
        /\ dataset' = dataset ]_vars

\* the step in which call i of handleAddDrone / handleDeleteDrone learns that
\* its request failed: the fetch is rejected, or the response is not OK or
\* carries no JSON
FailureArrives(i) ==
    /\ calls[i].op \in { "upsert", "delete" }
    /\ \/ FetchRejected(i)
       \/ Resume(i) /\ (~calls[i].response[1].ok \/ calls[i].response[1].json = << >>)

\* C15: when an upsert or delete of a custom drone fails (non-OK response or
\* rejected request), handleAddDrone / handleDeleteDrone leave customDrones
\* unchanged, issue no retry, and propagate the error to their caller instead
\* of swallowing it.
C15_FailureSurfaced ==
    [][ /\ \A i \in 1..Len(calls) :
             FailureArrives(i) =>
                 /\ customDrones' = customDrones
                 /\ calls'[i].stage = "done"
                 /\ calls'[i].outcome = "rejected"
                 /\ Len(calls') = Len(calls)
                 /\ \A j \in 1..Len(calls) : j # i => calls'[j] = calls[j]
        /\ \A i \in 1..Len(calls) :
             calls[i].stage = "done" => calls'[i] = calls[i] ]_vars

\* the stored drones are loaded; an upsert was refused by the server (no id)
\* and a delete was rejected, and customDrones is still what was loaded
C15_Witness ==
    /\ Len(calls) = 3
    /\ calls[1].outcome = "fulfilled"
    /\ calls[2].op = "upsert" /\ calls[2].outcome = "rejected" /\ calls[2].droneId = ""
    /\ calls[3].op = "delete" /\ calls[3].outcome = "rejected" /\ calls[3].droneId = "a/b"
    /\ customDrones = << MkSample("a/b", 0, 1) >>
    /\ customFile = customDrones

\* TimeSampler.interpolate of the spec: the interpolation of the code under a
\* filter that every sample of the dataset passes
Interpolate(ds, time) == interpolatedDrones(ds, InitialFilters, time)

\* C16: the displayed base-agent set at a fractional time equals the filter
\* applied to the output of interpolate on the unfiltered dataset (interpolate
\* first, then filter); in particular an agent whose start sample matches the
\* filter but whose end sample does not is still shown with interpolated values
\* rather than frozen at its start sample.
C16_InterpolateThenFilter ==
    (Rendered /\ Fractional) =>
        /\ ResultSet = { d \in { Interpolate(dataset, Now)[i] :
                                   i \in 1..Len(Interpolate(dataset, Now)) } :
                           matchesFilters(d, filters) }
        /\ \A s \in Passing(FloorIndex) : \A e \in SamplesAt(FloorIndex + 1) :
             (s.droneId = e.droneId /\ e \notin Passing(FloorIndex + 1)) =>
                 \E r \in ResultSet :
                     /\ r.droneId = s.droneId
                     /\ IsLerp(r.position.x, s.position.x, e.position.x)

\* C17: when at least one of the two segments is degenerate (its end points
\* coincide), the routine returns the exact distance from that point to the
\* other segment, whichever argument position the degenerate segment is in;
\* when both are degenerate it returns the end points themselves and the
\* distance |p - q|.
C17_DegenerateSegments ==
    closest # NoResult =>
        /\ (p1 = p2 \/ q1 = q2) =>
             FracEq(closest[1].distance2, RefMinDist2(p1, p2, q1, q2))
        /\ (p1 = p2 /\ q1 = q2) =>
             /\ closest[1].pointA = [num |-> p1, den |-> 1]
             /\ closest[1].pointB = [num |-> q1, den |-> 1]
             /\ closest[1].distance2 = << VDot(VSub(p1, q1), VSub(p1, q1)), 1 >>

(***************************************************************************)
(* Velocity vector claims (SpecVec).                                       *)
(***************************************************************************)
VectorsDrawn == vectorIntersections # NoResult
Markers == vectorIntersections[1]
Vectors == velocityVectorsOf(filters.showVelocityVectors, drones)
VectorPairs == { pr \in (1..Len(Vectors)) \X (1..Len(Vectors)) : pr[1] < pr[2] }

\* the squared distance the routine returns for the pair, in thresholds
ReturnedDistance2(pr) == ClosestOfVectors(Vectors[pr[1]], Vectors[pr[2]]).distance2

\* the midpoint of the two points the routine returns for the pair
ReturnedMidpoint(pr) ==
    LET r == ClosestOfVectors(Vectors[pr[1]], Vectors[pr[2]])
    IN  [ num |-> VScale(VAdd(VScale(r.pointA.num, r.pointB.den),
                              VScale(r.pointB.num, r.pointA.den)), 25),
          den |-> 2 * r.pointA.den * r.pointB.den ]

\* C18: a near-intersection marker is emitted for a pair of velocity-vector
\* segments exactly when the distance returned by closestPointsBetweenSegments
\* is strictly below the fixed threshold (25); a pair whose distance equals the
\* threshold gets no marker, and the marker position is the midpoint of the
\* two returned points.
C18_MarkerBelowThreshold ==
    (VectorsDrawn /\ filters.showVelocityVectors) =>
        /\ Len(Markers) =
             Cardinality({ pr \in VectorPairs : ~FracLeq(<< 1, 1 >>, ReturnedDistance2(pr)) })
        /\ \A pr \in VectorPairs :
             FracEq(ReturnedDistance2(pr), << 1, 1 >>) =>
                 \A k \in 1..Len(Markers) : Markers[k].position # ReturnedMidpoint(pr)
        /\ \A pr \in VectorPairs :
             ~FracLeq(<< 1, 1 >>, ReturnedDistance2(pr)) =>
                 \E k \in 1..Len(Markers) : Markers[k].position = ReturnedMidpoint(pr)

\* the key of the pair of the drones at the indices i and j of the list
KeyOfPair(i, j) == IntersectionKey(drones[i].droneId, drones[j].droneId)

\* C19: the key of a near-intersection marker depends only on the unordered
\* pair of agent ids: for any permutation of the agent list the same pair
\* yields the same key, and two different unordered pairs of agents in the
\* displayed set never yield the same key.
C19_KeyOfUnorderedPair ==
    VectorsDrawn =>
        /\ \A i, j \in 1..Len(drones) : i # j => KeyOfPair(i, j) = KeyOfPair(j, i)
        /\ \A f \in Permutations(1..Len(drones)) :
             LET moved == vectorIntersectionsOf(filters.showVelocityVectors,
                              velocityVectorsOf(filters.showVelocityVectors,
                                                [ i \in 1..Len(drones) |-> drones[f[i]] ]))
             IN  { Markers[k].id : k \in 1..Len(Markers) } = { moved[k].id : k \in 1..Len(moved) }
        /\ \A i, j, k, l \in 1..Len(drones) :
             (i < j /\ k < l /\ << i, j >> # << k, l >>) => KeyOfPair(i, j) # KeyOfPair(k, l)

\* C20: after any sequence of play/pause toggles and playbackSpeed changes,
\* at most one periodic playback timer is active, one is active exactly when
\* the state is Playing, and no tick changes currentTime while the state is
\* Paused or after teardown.
C20_SinglePlaybackTimer ==
    /\ [](intervals \in {0, 1})
    /\ [](mounted => (intervals = 1 <=> timelineState.isPlaying))
    /\ [](~mounted => intervals = 0)
    /\ [][ Tick => (timelineState.isPlaying /\ mounted) ]_vars
    /\ [][ (~timelineState.isPlaying \/ ~mounted) => ~TimeChanged \/ Scrub ]_vars

\* torn down while playing at 2x, after toggles and a speed change: no timer left
C20_Witness ==
    /\ ~mounted
    /\ timelineState.isPlaying
    /\ timelineState.playbackSpeed = Fx(2)
    /\ timelineState.currentTime > 0
    /\ intervals = 0

(***************************************************************************)
(* Overlap, projection and blending claims.                                *)
(***************************************************************************)
\* squared planar distance of two drones of the list, and their summed ranges
PlanarDist2(i, j) ==
    (drones[i].position.x - drones[j].position.x) * (drones[i].position.x - drones[j].position.x)
      + (drones[i].position.z - drones[j].position.z) * (drones[i].position.z - drones[j].position.z)
RangeSum(i, j) == drones[i].detectionRange + drones[j].detectionRange
DronePairs == { pr \in (1..NumDrones) \X (1..NumDrones) : pr[1] < pr[2] }
Flattened == [ i \in 1..NumDrones |-> [drones[i] EXCEPT !.position.y = 0] ]

\* C21: a pair of agents is counted in overlapPairs exactly when its planar
\* (x,z) distance is strictly less than the sum of the two detection ranges:
\* a tangent pair is not counted, the y component never affects the count,
\* and two agents of range 50 at planar distance about 90.9 are counted.
C21_OverlapStrictPlanar ==
    Summarised =>
        /\ coverage[1].overlapPairs =
             Cardinality({ pr \in DronePairs :
                             PlanarDist2(pr[1], pr[2]) < RangeSum(pr[1], pr[2]) * RangeSum(pr[1], pr[2]) })
        /\ (\A pr \in DronePairs :
               PlanarDist2(pr[1], pr[2]) = RangeSum(pr[1], pr[2]) * RangeSum(pr[1], pr[2]))
             => coverage[1].overlapPairs = 0
        /\ detectionCoverage(Flattened).overlapPairs = coverage[1].overlapPairs
        /\ (\E pr \in DronePairs :
               /\ drones[pr[1]].detectionRange = 50
               /\ drones[pr[2]].detectionRange = 50
               /\ PlanarDist2(pr[1], pr[2]) = 58 * 58 + 70 * 70)
             => coverage[1].overlapPairs >= 1

\* a drone of range 5 with, at planar distance 5 and 9 above it, a drone of
\* range 0 (tangent) and one of range 2 (overlapping in the plane only)
C21_Witness ==
    /\ Summarised
    /\ NumDrones = 3
    /\ drones[1] = ViewDrone("drone-1", 0, 0, 0, 0, 0, 0, 5)
    /\ drones[2] = ViewDrone("drone-1", 3, 9, 4, 0, 0, 0, 0)
    /\ drones[3] = ViewDrone("drone-1", 3, 9, 4, 0, 0, 0, 2)
    /\ coverage[1].overlapPairs = 2

\* the extents of the box in use and the normalised coordinates before clamping
ExtentX == BoxInUse.max.x - BoxInUse.min.x
ExtentZ == BoxInUse.max.z - BoxInUse.min.z
NormalizedX == normalizeToMap(position.x, BoxInUse.min.x, SpanOf(BoxInUse.min.x, BoxInUse.max.x))
NormalizedZ == normalizeToMap(position.z, BoxInUse.min.z, SpanOf(BoxInUse.min.z, BoxInUse.max.z))

\* C22: projection never divides by zero: for any bounding box, also one of
\* zero extent on x and/or z and an absent one, the span used to normalise
\* is non-zero (a span of 0 becomes 1) and the projected coordinates are finite.
C22_SpanNeverZero ==
    Projected =>
        /\ SpanOf(BoxInUse.min.x, BoxInUse.max.x) # 0
        /\ SpanOf(BoxInUse.min.z, BoxInUse.max.z) # 0
        /\ ExtentX = 0 => SpanOf(BoxInUse.min.x, BoxInUse.max.x) = 1
        /\ ExtentZ = 0 => SpanOf(BoxInUse.min.z, BoxInUse.max.z) = 1
        /\ ExtentX > 0 => SpanOf(BoxInUse.min.x, BoxInUse.max.x) = ExtentX
        /\ ExtentZ > 0 => SpanOf(BoxInUse.min.z, BoxInUse.max.z) = ExtentZ
        /\ NormalizedX[2] # 0
        /\ NormalizedZ[2] # 0
        /\ marker[1].x[2] # 0
        /\ marker[1].y[2] # 0
        /\ marker[1].x = clampWithMargin(NormalizedX)

\* a box of zero extent on x only, and a position on it: 0 / 0 without the guard
C22_Witness ==
    /\ Projected
    /\ boundingBox # << >>
    /\ ExtentX = 0
    /\ ExtentZ > 0
    /\ position.x = BoxInUse.min.x
    /\ marker[1].x = << 4, 1 >>

MaxIndexOfDataset == IF Len(dataset.timePoints) <= 1 THEN 0 ELSE Len(dataset.timePoints) - 1

\* C24: in every state reached by ticks, scrubs, play/pause toggles and speed
\* changes with playbackSpeed >= 0, 0 <= currentTime <= maxIndex; maxIndex is 0
\* for an empty or single-sample dataset, where a tick leaves the state as it is.
C24_CurrentTimeInRange ==
    /\ [](timelineState.playbackSpeed >= 0 =>
            /\ 0 <= timelineState.currentTime
            /\ timelineState.currentTime <= Fx(MaxIndexOfDataset))
    /\ [][ (Tick /\ Len(dataset.timePoints) <= 1) => timelineState' = timelineState ]_vars

\* playing on the last index of a dataset of four time points, at speed 0
C24_Witness ==
    /\ timelineState.isPlaying
    /\ MaxIndexOfDataset = 3
    /\ timelineState.currentTime = Fx(MaxIndexOfDataset)
    /\ timelineState.playbackSpeed = Fx(0)
    /\ intervals = 1

\* playback stays Playing on a mounted dashboard, at a speed above 0, over a
\* dataset of two time points or more
KeepsPlaying ==
    <>[](/\ mounted
         /\ timelineState.isPlaying
         /\ timelineState.playbackSpeed > 0
         /\ MaxIndexOfDataset > 0)

CustomListChanges == customDrones' # customDrones \/ customTasks' # customTasks

\* tags available before and after a step
SwarmsBefore == ElemsOf(combinedSwarms(customDrones))
TasksBefore == ElemsOf(combinedTasks(customTasks, customDrones))
StatesBefore == ElemsOf(combinedStates(customDrones))
SwarmsAfter == ElemsOf(combinedSwarms(customDrones'))
TasksAfter == ElemsOf(combinedTasks(customTasks', customDrones'))
StatesAfter == ElemsOf(combinedStates(customDrones'))

\* C26: a swarm, task or state tag the operator has deselected stays
\* deselected when the custom-drone list changes (a custom drone or task is
\* loaded, added, updated or deleted): the filter-sync effect adds only tags
\* that were not available before the change, and never changes batteryRange
\* or the display toggles.
C26_DeselectedStaysDeselected ==
    [][ CustomListChanges =>
          /\ ElemsOf(filters'.selectedSwarms) \ ElemsOf(filters.selectedSwarms)
               \subseteq SwarmsAfter \ SwarmsBefore
          /\ ElemsOf(filters'.selectedTasks) \ ElemsOf(filters.selectedTasks)
               \subseteq TasksAfter \ TasksBefore
          /\ ElemsOf(filters'.selectedStates) \ ElemsOf(filters.selectedStates)
               \subseteq StatesAfter \ StatesBefore
          /\ filters'.batteryRange = filters.batteryRange
          /\ filters'.showTrajectories = filters.showTrajectories
          /\ filters'.showDetectionRanges = filters.showDetectionRanges
          /\ filters'.showVelocityVectors = filters.showVelocityVectors
          /\ filters'.showSignalIntensity = filters.showSignalIntensity
          /\ filters'.showVideoFeedback = filters.showVideoFeedback ]_vars

\* C27: every drone of the displayed set currentDrones (interpolated base
\* drones followed by custom drones) satisfies matchesFilters under the
\* current filters, for every time and filter, also when its
\* batteryPercentage is an interpolated value.
C27_DisplayedMatchFilters ==
    Rendered =>
        /\ \A i \in 1..Len(drones) :
             /\ drones[i].swarmId \in ElemsOf(filters.selectedSwarms)
             /\ drones[i].taskId \in ElemsOf(filters.selectedTasks)
             /\ filters.selectedStates = << >> \/ drones[i].state \in ElemsOf(filters.selectedStates)
             /\ filters.batteryRange[1] <= drones[i].batteryPercentage
             /\ drones[i].batteryPercentage <= filters.batteryRange[2]
        /\ SubSeq(drones, 1, Len(Result)) = Result
        /\ \A i \in (Len(Result) + 1)..Len(drones) : Includes(customDrones, drones[i])

\* a base drone shown with a battery between 98 and 40, under a range that
\* both samples meet at its two ends, followed by two custom drones
C27_Witness ==
    /\ Rendered
    /\ Fractional
    /\ filters.batteryRange = << Fx(40), Fx(98) >>
    /\ Len(drones) = Len(Result) + 2
    /\ \E i \in 1..Len(Result) :
         /\ drones[i].batteryPercentage > Fx(40)
         /\ drones[i].batteryPercentage < Fx(98)

(***************************************************************************)
(* Custom-entity claims on ordering and the stored list (SpecCustom,       *)
(* SpecStore).                                                             *)
(***************************************************************************)
AllCompleted ==
    \A i \in 1..Len(calls) : calls[i].stage = "done" /\ calls[i].outcome = "fulfilled"

\* C28: once every in-flight custom-entity request (the initial fetch, upserts
\* and deletes) has completed successfully, customDrones equals the persisted
\* drone list, whatever the order in which the responses arrive relative to
\* the order in which the requests were processed.
C28_SettledMatchesStore ==
    AllCompleted => customDrones = customFile

BothAnswered ==
    \A i \in 1..Len(calls) : calls[i].stage = "responded" /\ calls[i].response[1].ok

\* C29: when two mutating requests on different ids (two upserts, or an upsert
\* and another change) are handled concurrently by the middleware, both
\* changes are in the persisted file after both handlers have finished: no
\* update is lost between a handler's readCustomData and its writeCustomData.
C29_NoLostUpdate ==
    BothAnswered =>
        \A i \in 1..Len(calls) :
            /\ calls[i].op = "upsert" => Includes(customFile, calls[i].request.body[1])
            /\ calls[i].op = "delete" =>
                 \A k \in 1..Len(customFile) : customFile[k].droneId # calls[i].droneId

\* the request handled by a step, its drone, and the ids of the stored list
Handled == calls'[1]
Incoming == Handled.request.body[1]
StoredIds == { customFile[k].droneId : k \in 1..Len(customFile) }
IsUpsert ==
    /\ Handled.op = "upsert"
    /\ Handled.request.body # << >>
    /\ Handled.droneId # ""
IsRefused ==
    /\ Handled.op = "upsert"
    /\ Handled.request.body = << >> \/ Handled.droneId = ""

\* C30: starting from an empty store, after any sequence of sequentially
\* processed upsert and delete requests the persisted list has no two entries
\* of one droneId; an upsert of a stored id replaces that entry in place and
\* changes neither the length of the list nor the order of the other entries,
\* an upsert of the same drone twice equals one upsert, and a request without
\* the drone or without its droneId is answered with status 400 and leaves the
\* store as it is.
C30_StoreKeepsIdsUnique ==
    /\ [](\A i \in 1..Len(customFile) : \A j \in 1..Len(customFile) :
            customFile[i].droneId = customFile[j].droneId => i = j)
    /\ [][ Handle =>
             /\ (IsUpsert /\ Handled.droneId \in StoredIds) =>
                  /\ Len(customFile') = Len(customFile)
                  /\ \A k \in 1..Len(customFile) :
                       customFile'[k] = IF customFile[k].droneId = Handled.droneId
                                        THEN Incoming ELSE customFile[k]
             /\ (IsUpsert /\ Handled.droneId \notin StoredIds) =>
                  customFile' = Append(customFile, Incoming)
             /\ IsUpsert =>
                  /\ Handled.response[1].status = 200
                  /\ Handled.response[1].json = << [drones |-> customFile'] >>
                  /\ Written([Handled EXCEPT !.snapshot = << customFile' >>]) = customFile'
             /\ IsRefused =>
                  /\ Handled.response[1].status = 400
                  /\ customFile' = customFile
             /\ Handled.op = "delete" =>
                  customFile' = SelectSeq(customFile, LAMBDA d : d.droneId # Handled.droneId) ]_vars

\* the first of two stored drones has just been replaced in place
C30_Witness ==
    /\ customFile = << MkSample("drone-1", 0, 2), MkSample("a/b", 0, 1) >>
    /\ calls # << >>
    /\ calls[1].op = "upsert"
    /\ calls[1].droneId = "drone-1"
    /\ calls[1].response[1].status = 200

====
